---- MODULE Spec2Model ----
(***************************************************************************)
(* Dispatch-and-cache coordination layer of the messaging backend:         *)
(*   MessagesService.sendMessage      (dispatch orchestrator)              *)
(*   MessagesService.getUserMessages  (cache-aside read path)              *)
(*   MessageSenderFactory.getSender   (sender selector)                    *)
(*   RedisService                     (cache store client)                 *)
(*   CloudinaryService.uploadFile     (file-storage collaborator)          *)
(* Every await of the source is a step of its own, so that concurrent      *)
(* calls interleave exactly where the program can be suspended.            *)
(* Strings that the program assembles (cache keys, glob patterns) are      *)
(* sequences of one-character strings; opaque strings are TLA+ strings.    *)
(***************************************************************************)
EXTENDS Integers, Sequences, FiniteSets, TLC

(***************************************************************************)
(* Bounds of the model.                                                    *)
(***************************************************************************)
\* calls (reads and dispatches) that may run concurrently under Spec
MaxCalls == 3
\* longest recipient list of a request under SpecDispatch
MaxRecipients == 2
\* calls of getUserMessages under SpecRead
MaxReads == 2
\* steps of the clock under SpecRead
MaxTicks == 2
MaxDispatches == 2

(***************************************************************************)
(* Values.                                                                 *)
(***************************************************************************)
Undefined == "undefined"
Null == "null"

\* MessagePlatform
SupportedPlatforms == {"telegram", "slack", "discord", "whatsapp"}
\* tags that are not members of the enumeration
UnsupportedTags == {"sms", "TELEGRAM"}

\* private readonly CACHE_TTL = 24 * 60 * 60
CACHE_TTL == 24 * 60 * 60

\* const maxSize = 10 * 1024 * 1024
MaxFileSize == 10 * 1024 * 1024

\* authenticated user ids (the second extends the first, so that a prefix
\* of one key region is not mistaken for the other)
Users == {<<"a">>, <<"a", "b">>}
Recipients == {"r1", "r2"}
Contents == {"hi"}

\* a content of 5001 characters
TooLong == "x * 5001"

\* content.length
Length(content) ==
    CASE content = "" -> 0
      [] content = "hi" -> 2
      [] content = "ho" -> 2
      [] content = TooLong -> 5001

(***************************************************************************)
(* Cache key derivation and glob matching.                                 *)
(***************************************************************************)
Digit(d) == <<"0", "1", "2", "3", "4", "5", "6", "7", "8", "9">>[d + 1]

RECURSIVE NumberToString(_)
NumberToString(n) == IF n < 10 THEN <<Digit(n)>> ELSE NumberToString(n \div 10) \o <<Digit(n % 10)>>

MessagesColon == <<"m", "e", "s", "s", "a", "g", "e", "s", ":">>

\* the key without the separators between its parts
cacheKeyNoSeparator(userId, limit, offset) == MessagesColon \o userId \o NumberToString(limit) \o NumberToString(offset)

\* a key that names the window only
cacheKeyNoUser(userId, limit, offset) == MessagesColon \o NumberToString(limit) \o <<":">> \o NumberToString(offset)

\* `messages:${userId}:${limit}:${offset}`
cacheKey(userId, limit, offset) == MessagesColon \o userId \o <<":">> \o NumberToString(limit) \o <<":">> \o NumberToString(offset)

\* a pattern that names the default page only
patternFirstPage(userId) == MessagesColon \o userId \o <<":", "1", "0", ":", "0">>

\* a pattern without the separator that ends the user id
patternNoSeparator(userId) == MessagesColon \o userId \o <<"*">>

\* `messages:${userId}:*`
pattern(userId) == MessagesColon \o userId \o <<":", "*">>

\* glob matching of the KEYS command: '*' matches any run of characters
RECURSIVE GlobMatch(_, _)
GlobMatch(pat, s) ==
    IF pat = <<>> THEN s = <<>>
    ELSE IF Head(pat) = "*"
         THEN GlobMatch(Tail(pat), s) \/ (s # <<>> /\ GlobMatch(pat, Tail(s)))
         ELSE s # <<>> /\ Head(s) = Head(pat) /\ GlobMatch(Tail(pat), Tail(s))

(***************************************************************************)
(* Persistent store: documents, query, serialisation.                      *)
(***************************************************************************)
\* a document that is saved without the URL of its file
NewDocumentNoFile(n, userId, dto, fileUrl, sent) ==
    [_id |-> <<"ObjectId", n>>,
     senderId |-> <<"ObjectId", userId>>,
     recipients |-> dto.recipients,
     platform |-> dto.platform,
     content |-> dto.content,
     fileUrl |-> Null,
     sent |-> sent,
     createdAt |-> <<"Date", n>>,
     updatedAt |-> <<"Date", n>>]

\* new this.messageModel({...}) followed by save(): the schema defaults
\* (fileUrl: null) and the timestamps are applied by the store
NewDocument(n, userId, dto, fileUrl, sent) ==
    [_id |-> <<"ObjectId", n>>,
     senderId |-> <<"ObjectId", userId>>,
     recipients |-> dto.recipients,
     platform |-> dto.platform,
     content |-> dto.content,
     fileUrl |-> IF fileUrl = Undefined THEN Null ELSE fileUrl,
     sent |-> sent,
     createdAt |-> <<"Date", n>>,
     updatedAt |-> <<"Date", n>>]

RECURSIVE Reverse(_)
Reverse(s) == IF s = <<>> THEN <<>> ELSE Reverse(Tail(s)) \o <<Head(s)>>

RECURSIVE Filter(_, _)
Filter(s, userId) ==
    IF s = <<>> THEN <<>>
    ELSE IF Head(s).senderId = <<"ObjectId", userId>>
         THEN <<Head(s)>> \o Filter(Tail(s), userId)
         ELSE Filter(Tail(s), userId)

Skip(s, n) == IF n >= Len(s) THEN <<>> ELSE SubSeq(s, n + 1, Len(s))

Limit(s, n) == IF n >= Len(s) THEN s ELSE SubSeq(s, 1, n)

\* the query without its sort: the documents in insertion order
FindPageOldestFirst(docs, userId, limit, offset) == Limit(Skip(Filter(docs, userId), offset), limit)

\* find({senderId}).sort({createdAt: -1}).skip(offset).limit(limit).exec()
\* (the store is kept in insertion order, createdAt strictly increasing)
FindPage(docs, userId, limit, offset) == Limit(Skip(Reverse(Filter(docs, userId)), offset), limit)

\* toJSON of one document: ObjectIds and Dates become strings
ToJSON(doc) ==
    [_id |-> <<"string", doc._id[2]>>,
     senderId |-> <<"string", doc.senderId[2]>>,
     recipients |-> doc.recipients,
     platform |-> doc.platform,
     content |-> doc.content,
     fileUrl |-> doc.fileUrl,
     sent |-> doc.sent,
     createdAt |-> <<"string", doc.createdAt[2]>>,
     updatedAt |-> <<"string", doc.updatedAt[2]>>]

\* a string held by the cache: the JSON value it denotes when it is
\* well-formed JSON text, and whether it is
\* JSON.stringify(messages)
JsonStringify(messages) == [json |-> [i \in 1..Len(messages) |-> ToJSON(messages[i])], wellFormed |-> TRUE]

\* a string that is not JSON text (a truncated or foreign value)
Corrupt == [json |-> <<>>, wellFormed |-> FALSE]

\* JSON.parse(cachedData): the value, or a SyntaxError
JsonParse(text) ==
    IF text.wellFormed
    THEN [ok |-> TRUE, value |-> text.json, error |-> [name |-> "none", message |-> <<>>]]
    ELSE [ok |-> FALSE, value |-> <<>>, error |-> [name |-> "SyntaxError", message |-> <<"Unexpected token">>]]

\* a schema that validates the content only
SchemaValidContentOnly(doc) == Length(doc.content) >= 1 /\ Length(doc.content) <= 5000

\* the validators of the Message schema that save() runs: recipients holds
\* at least one entry, platform is a member of the enumeration, content has
\* 1 to 5000 characters
SchemaValid(doc) ==
    /\ Len(doc.recipients) > 0
    /\ doc.platform \in SupportedPlatforms
    /\ Length(doc.content) >= 1 /\ Length(doc.content) <= 5000

\* the validators of CreateMessageDto that the global ValidationPipe runs:
\* @ArrayMinSize(1) recipients, @IsEnum(MessagePlatform) platform,
\* @IsString @IsNotEmpty content (no upper limit on its length)
ValidateDto(dto) ==
    /\ Len(dto.recipients) >= 1
    /\ dto.platform \in SupportedPlatforms
    /\ Length(dto.content) # 0

(***************************************************************************)
(* Errors and results.                                                     *)
(***************************************************************************)
NoError == [name |-> "none", message |-> <<>>]

\* new InternalServerErrorException('Error al procesar el envío del mensaje')
ProcessingError == [name |-> "InternalServerErrorException", message |-> <<"Error al procesar el envío del mensaje">>]

\* new InternalServerErrorException('Error al obtener los mensajes')
ReadError == [name |-> "InternalServerErrorException", message |-> <<"Error al obtener los mensajes">>]

\* the ValidationError of a document that fails the validators of its schema
SchemaError == [name |-> "ValidationError", message |-> <<"Message validation failed">>]

\* the BadRequestException of the ValidationPipe
PipeError == [name |-> "BadRequestException", message |-> <<"Bad Request">>]

\* a rejection raised by a collaborator (network, driver, test double)
CollaboratorError == [name |-> "Error", message |-> <<"rejected">>]

\* SendResult: the success field is optional (<<>> when the strategy sets none)
SendResults == {[success |-> <<TRUE>>], [success |-> <<FALSE>>], [success |-> <<>>]}
NoResult == [success |-> <<>>]

\* truthiness of an optional boolean
Truthy(opt) == opt = <<TRUE>>

(***************************************************************************)
(* Sender selector.                                                        *)
(***************************************************************************)
\* a selector whose discord branch returns the slack strategy
SenderOfCollapsed(platform) ==
    CASE platform = "telegram" -> "telegramSender"
      [] platform = "slack" -> "slackSender"
      [] platform = "discord" -> "slackSender"
      [] platform = "whatsapp" -> "whatsappSender"

\* the four injected singletons, named by the field that holds them
SenderOf(platform) ==
    CASE platform = "telegram" -> "telegramSender"
      [] platform = "slack" -> "slackSender"
      [] platform = "discord" -> "discordSender"
      [] platform = "whatsapp" -> "whatsappSender"

\* getSender with a silent default instead of the error path
getSenderDefault(platform) ==
    [ok |-> TRUE, sender |-> IF platform \in SupportedPlatforms THEN SenderOf(platform) ELSE "telegramSender", error |-> NoError]

\* getSender(platform): the strategy, or the BadRequestException of the default branch
getSender(platform) ==
    IF platform \in SupportedPlatforms
    THEN [ok |-> TRUE, sender |-> SenderOf(platform), error |-> NoError]
    ELSE [ok |-> FALSE, sender |-> "none",
          error |-> [name |-> "BadRequestException",
                     message |-> <<"Plataforma no soportada: ", platform,
                                   ". Opciones válidas: telegram, slack, discord, whatsapp">>]]

(***************************************************************************)
(* File-storage collaborator.                                              *)
(***************************************************************************)
NoFile == [present |-> FALSE, size |-> 0]
Files == {[present |-> TRUE, size |-> 1024], [present |-> TRUE, size |-> MaxFileSize + 1]}

\* what the HTTP request to the storage service comes back with
AxiosOutcomes == {"secure_url", "no_secure_url", "status400", "status401", "network"}

SecureUrl == "https://res.cloudinary.com/moob/f.pdf"

\* uploadFile without the check of the response for a secure_url
uploadFileUnchecked(file, axios) ==
    IF file.present /\ file.size <= MaxFileSize /\ axios \in {"secure_url", "no_secure_url"}
    THEN [ok |-> TRUE, url |-> IF axios = "secure_url" THEN SecureUrl ELSE Undefined, error |-> NoError]
    ELSE [ok |-> FALSE, url |-> Undefined, error |-> [name |-> "InternalServerErrorException", message |-> <<"Error al subir el archivo a Cloudinary">>]]

\* CloudinaryService.uploadFile(file), given the outcome of its HTTP request
uploadFile(file, axios) ==
    IF ~file.present
    THEN [ok |-> FALSE, url |-> Undefined, error |-> [name |-> "BadRequestException", message |-> <<"No se proporcionó ningún archivo">>]]
    ELSE IF file.size > MaxFileSize
    THEN [ok |-> FALSE, url |-> Undefined, error |-> [name |-> "BadRequestException", message |-> <<"El archivo excede el tamaño máximo permitido de 10 MB">>]]
    ELSE IF axios = "secure_url"
    THEN [ok |-> TRUE, url |-> SecureUrl, error |-> NoError]
    ELSE IF axios = "status400"
    THEN [ok |-> FALSE, url |-> Undefined, error |-> [name |-> "BadRequestException", message |-> <<"Error de Cloudinary">>]]
    ELSE IF axios = "status401"
    THEN [ok |-> FALSE, url |-> Undefined, error |-> [name |-> "InternalServerErrorException", message |-> <<"Error de autenticación con Cloudinary">>]]
    ELSE [ok |-> FALSE, url |-> Undefined, error |-> [name |-> "InternalServerErrorException", message |-> <<"Error al subir el archivo a Cloudinary">>]]

(***************************************************************************)
(* Fan-out policy of the orchestrator.                                     *)
(***************************************************************************)
\* one call of the orchestrator on the strategy, and the promise it returned
Invocation(method, recipient, recipients, content, file) ==
    [method |-> method,
     data |-> [recipient |-> recipient, recipients |-> recipients, content |-> content, file |-> file],
     state |-> "pending",
     result |-> NoResult]

\* the fan-out with the capability test ahead of the length test
IssueSendsMassFirst(hasMass, recipients, content, fileUrl) ==
    IF hasMass
    THEN <<Invocation("sendMassMessage", "", recipients, content, fileUrl)>>
    ELSE [i \in 1..Len(recipients) |-> Invocation("sendMessage", recipients[i], <<>>, content, fileUrl)]

\* the fan-out without the capability test
IssueSendsOneByOne(hasMass, recipients, content, fileUrl) ==
    [i \in 1..Len(recipients) |-> Invocation("sendMessage", recipients[i], <<>>, content, fileUrl)]

\* the calls issued by lines 61-86, in the order they are issued
IssueSends(hasMass, recipients, content, fileUrl) ==
    IF Len(recipients) = 1
    THEN <<Invocation("sendMessage", recipients[1], <<>>, content, fileUrl)>>
    ELSE IF hasMass
    THEN <<Invocation("sendMassMessage", "", recipients, content, fileUrl)>>
    ELSE [i \in 1..Len(recipients) |-> Invocation("sendMessage", recipients[i], <<>>, content, fileUrl)]

\* Promise.race in the place of Promise.all: settled with the first call that settles
PromiseRace(invocations) ==
    IF \E i \in 1..Len(invocations) : invocations[i].state = "rejected" THEN "rejected"
    ELSE IF \E i \in 1..Len(invocations) : invocations[i].state = "resolved" THEN "resolved"
    ELSE "pending"

\* Promise.all over the issued calls (a single awaited call is the case of one):
\* rejected as soon as one rejects, resolved once every one has resolved
PromiseAll(invocations) ==
    IF \E i \in 1..Len(invocations) : invocations[i].state = "rejected" THEN "rejected"
    ELSE IF \A i \in 1..Len(invocations) : invocations[i].state = "resolved" THEN "resolved"
    ELSE "pending"

\* results.some in the place of results.every
Some(invocations) == \E i \in 1..Len(invocations) : Truthy(invocations[i].result.success)

\* results.every((result) => result.success)
Every(invocations) == \A i \in 1..Len(invocations) : Truthy(invocations[i].result.success)

\* sendResult once the awaited promise has resolved
SendResultOf(fallback, invocations) ==
    IF fallback THEN [success |-> <<Every(invocations)>>] ELSE invocations[1].result

\* sent: true, whatever the strategy reported
SentAlways(sendResult) == TRUE

\* sent: sendResult.success || false
Sent(sendResult) == Truthy(sendResult.success)

(***************************************************************************)
(* Sender strategies: TelegramSender (the Bot API over HTTP) and the       *)
(* simulated SlackSender, DiscordSender and WhatsappSender.                *)
(***************************************************************************)
\* a string that is not a URL
Base64File == "data:application/pdf;base64,AAAA"

\* what data.file may hold: nothing, the URL of the uploaded file, another string
StrategyFiles == {Undefined, SecureUrl, Base64File}

\* file.startsWith('http://') || file.startsWith('https://')
IsUrl(file) == file = SecureUrl

\* how a request to the Bot API comes back: 200 with ok: true, 200 with
\* ok: false, an error status, no response at all, a response without a body
ApiAnswers == {"ok200", "ok_false", "status400", "network", "no_body"}

\* the two TelegramSender sources of the repository
Versions(sender) == IF sender = "telegramSender" THEN {"current", "earlier"} ELSE {"current"}

\* SendResult of a strategy: every field but success is optional
NoSendResult == [success |-> <<>>, delivered |-> <<>>, statusCode |-> <<>>, message |-> <<>>]

\* one execution of sendMessage(data) and the promise it returned; fileCall
\* is what sendFile returned, textCall how the sendMessage request came back
NewSend(recipient) ==
    [recipient |-> recipient, pc |-> "start", state |-> "pending",
     fileCall |-> "none", textCall |-> "none", silent |-> FALSE, result |-> NoSendResult]

\* return result
Fulfil(send, result) == [send EXCEPT !.pc = "done", !.state = "resolved", !.result = result]

\* throw
Reject(send) == [send EXCEPT !.pc = "done", !.state = "rejected"]

\* what axios.post, or the reading of the response, throws
ApiError(answer) ==
    CASE answer = "status400" ->
             [axios |-> TRUE, status |-> <<400>>, description |-> <<"Bad Request: chat not found">>,
              message |-> <<"Request failed with status code 400">>]
      [] answer = "network" ->
             [axios |-> TRUE, status |-> <<>>, description |-> <<>>, message |-> <<"Network Error">>]
      [] answer = "no_body" ->
             [axios |-> FALSE, status |-> <<>>, description |-> <<>>,
              message |-> <<"Cannot read properties of undefined (reading 'ok')">>]

\* return { success: false, message: 'Token no configurado' }
TokenMissing == [NoSendResult EXCEPT !.success = <<FALSE>>, !.message = <<"Token no configurado">>]

\* return { success: true, statusCode: 200 }
Delivered == [NoSendResult EXCEPT !.success = <<TRUE>>, !.statusCode = <<200>>]

\* a catch block that lets the error through
CatchSendMessageRethrow(send, error) == Reject(send)

\* the catch block of TelegramSender.sendMessage
CatchSendMessage(send, error) ==
    Fulfil(send,
           IF error.axios
           THEN [NoSendResult EXCEPT !.success = <<FALSE>>, !.statusCode = error.status,
                                     !.message = IF error.description # <<>> THEN error.description ELSE error.message]
           ELSE [NoSendResult EXCEPT !.success = <<FALSE>>, !.message = error.message])

\* a text request that is issued again when no response came back
TextFailedRetries(send, answer) ==
    IF answer = "network" THEN [send EXCEPT !.pc = "sendMessage"]
    ELSE IF answer = "ok_false"
    THEN Fulfil(send, [NoSendResult EXCEPT !.success = <<FALSE>>, !.statusCode = <<200>>,
                                           !.message = <<"Error en respuesta de API">>])
    ELSE CatchSendMessage(send, ApiError(answer))

\* the text request has come back: if (response.data.ok && response.status === 200) ... else ..., or the catch
TextFailed(send, answer) ==
    IF answer = "ok_false"
    THEN Fulfil(send, [NoSendResult EXCEPT !.success = <<FALSE>>, !.statusCode = <<200>>,
                                           !.message = <<"Error en respuesta de API">>])
    ELSE CatchSendMessage(send, ApiError(answer))

\* sendFile: true when the sendDocument request came back with ok: true;
\* every other answer, and every error, is logged and gives false
SendFileReturns(answer) == IF answer = "ok200" THEN "sent" ELSE "failed"

\* a sendMessage that fails when its file could not be sent
AfterFileStrict(send, fileSent) ==
    IF fileSent = "sent"
    THEN Fulfil([send EXCEPT !.fileCall = fileSent], Delivered)
    ELSE Fulfil([send EXCEPT !.fileCall = fileSent],
                [NoSendResult EXCEPT !.success = <<FALSE>>, !.message = <<"Archivo no pudo ser enviado">>])

\* current: if (fileSent) return { success: true, statusCode: 200 }; otherwise
\* the text is sent on its own
AfterFile(send, fileSent) ==
    IF fileSent = "sent"
    THEN Fulfil([send EXCEPT !.fileCall = fileSent], Delivered)
    ELSE [send EXCEPT !.fileCall = fileSent, !.pc = "sendMessage"]

\* earlier: await this.sendFile(...) with its value dropped, then
\* return { success: true, statusCode: response.status }
AfterFileEarlier(send, fileSent) == Fulfil([send EXCEPT !.fileCall = fileSent], Delivered)

\* sendMessage(data) up to its first request, current TelegramSender
BeginTelegram(send, token, file) ==
    IF ~token THEN Fulfil(send, TokenMissing)
    ELSE IF file # Undefined
    THEN IF IsUrl(file) THEN [send EXCEPT !.pc = "sendDocument"] ELSE AfterFile(send, "failed")
    ELSE [send EXCEPT !.pc = "sendMessage"]

\* sendMessage(data) up to its first request, earlier TelegramSender
BeginTelegramEarlier(send, token) ==
    IF ~token THEN Fulfil(send, TokenMissing) ELSE [send EXCEPT !.pc = "sendMessage"]

\* the text request has come back, current TelegramSender
TextAnswered(send, answer) ==
    IF answer = "ok200" THEN Fulfil([send EXCEPT !.textCall = answer], Delivered)
    ELSE TextFailed([send EXCEPT !.textCall = answer], answer)

\* the text request has come back, earlier TelegramSender: the file follows
\* the text that was delivered
TextAnsweredEarlier(send, answer, file) ==
    IF answer = "ok200"
    THEN IF file # Undefined
         THEN IF IsUrl(file) THEN [send EXCEPT !.textCall = answer, !.pc = "sendDocument"]
              ELSE AfterFileEarlier([send EXCEPT !.textCall = answer], "failed")
         ELSE Fulfil([send EXCEPT !.textCall = answer], Delivered)
    ELSE TextFailed([send EXCEPT !.textCall = answer], answer)

\* the simulated senders: return { success: true, delivered: true, statusCode: 200 }
\* (DiscordSender sets no delivered field)
SimulatedDelivered(sender) ==
    [Delivered EXCEPT !.delivered = IF sender = "discordSender" THEN <<>> ELSE <<TRUE>>]

\* sendMessage(data) of a strategy up to its first await
Begin(sender, version, token, file, send) ==
    IF sender = "telegramSender"
    THEN IF version = "current" THEN BeginTelegram(send, token, file) ELSE BeginTelegramEarlier(send, token)
    ELSE [send EXCEPT !.pc = "delay"]

\* results.length in the place of the number of successes
CountAll(sends) == Len(sends)

\* results.filter((r) => r.success).length
SuccessCount(sends) == Cardinality({i \in 1..Len(sends) : Truthy(sends[i].result.success)})

\* results.every((result) => result.success), results.every((result) => result.delivered)
AllSuccess(sends) == \A i \in 1..Len(sends) : Truthy(sends[i].result.success)
AllDelivered(sends) == \A i \in 1..Len(sends) : Truthy(sends[i].result.delivered)

\* what sendMassMessage returns once Promise.all has given it the results
MassResult(sender, sends) ==
    LET successCount == SuccessCount(sends)
        failedCount == Len(sends) - successCount
    IN IF sender = "telegramSender"
       THEN IF failedCount = 0
            THEN [NoSendResult EXCEPT !.success = <<TRUE>>,
                      !.message = NumberToString(successCount) \o <<"/">> \o NumberToString(Len(sends)) \o <<" mensajes enviados">>]
            ELSE [NoSendResult EXCEPT !.success = <<FALSE>>,
                      !.message = NumberToString(successCount) \o <<" exitosos, ">> \o NumberToString(failedCount) \o <<" fallidos">>]
       ELSE [NoSendResult EXCEPT !.success = <<AllSuccess(sends)>>,
                 !.delivered = IF sender = "discordSender" THEN <<>> ELSE <<AllDelivered(sends)>>,
                 !.message = NumberToString(successCount) \o <<"/">> \o NumberToString(Len(sends)) \o <<" enviados">>]

\* the catch block of sendMassMessage
CatchMass(sender) ==
    [NoSendResult EXCEPT !.success = <<FALSE>>, !.message = <<"rejected">>,
                         !.delivered = IF sender \in {"slackSender", "whatsappSender"} THEN <<FALSE>> ELSE <<>>]

\* a strategy on which no method has been called
IdleStrategy ==
    [pc |-> "idle", sender |-> "none", version |-> "none", method |-> "none", token |-> FALSE,
     recipients |-> <<>>, file |-> Undefined, sends |-> <<>>, threw |-> FALSE, result |-> NoSendResult]

(***************************************************************************)
(* RedisService on its own.                                                *)
(***************************************************************************)
\* what an operation returns: null, a string, a boolean or a number
JsNull == <<"null">>
JsString(v) == <<"string", v>>
JsBoolean(b) == <<"boolean", b>>
JsNumber(n) == <<"number", n>>

\* an operation of RedisService that has not been called; found is what
\* client.keys returned, issued the commands sent to the client, rejected
\* whether the client rejected one, deleted the keys the store dropped
IdleRedis ==
    [op |-> "none", pc |-> "idle", found |-> {}, issued |-> <<>>, rejected |-> FALSE,
     deleted |-> 0, threw |-> FALSE, returned |-> <<>>]

\* a catch block that lets the error of the client through
RedisCatchThrows(call, command, value) ==
    [call EXCEPT !.pc = "done", !.issued = Append(@, command), !.rejected = TRUE, !.threw = TRUE]

\* catch (error) { this.logger.error(...); return <value>; }
RedisCatch(call, command, value) ==
    [call EXCEPT !.pc = "done", !.issued = Append(@, command), !.rejected = TRUE, !.returned = value]

\* return <value> from the try block, after the command has been answered
RedisReturn(call, command, value) ==
    [call EXCEPT !.pc = "done", !.issued = Append(@, command), !.returned = value]

\* TTL key of the store: -2 without the key, -1 for a key without expiry
StoreTtl(store, key) == IF key \in DOMAIN store THEN store[key].ttl ELSE -2

\* if (ttlSeconds) SETEX else SET
SetCommand(ttlSeconds) == IF ttlSeconds # 0 THEN "setex" ELSE "set"

\* the entry SETEX / SET leaves under the key
SetEntry(value, ttlSeconds) == [value |-> value, ttl |-> IF ttlSeconds # 0 THEN ttlSeconds ELSE -1]

\* the store without the given keys
Without(store, keys) == [k \in DOMAIN store \ keys |-> store[k]]

(***************************************************************************)
(* State.                                                                  *)
(***************************************************************************)
VARIABLES
    messageModel,     \* the collection of message documents, in insertion order
    redis,            \* the cache store: key -> [value, ttl]
    massCapable,      \* the injected strategies that define sendMassMessage
    strategyCall,     \* the call of sendMessage / sendMassMessage on a strategy taken on its own
    redisCall,        \* the call of an operation of RedisService taken on its own
    calls,            \* the calls of sendMessage / getUserMessages: position and locals
    createdBy,        \* history: createdBy[i] is the call that saved messageModel[i]
    snapshotOf,       \* history: size of the collection when the page under a key was queried
    now,              \* the clock of the cache store, in seconds
    writtenAt,        \* history: the time at which the entry under a key was written
    invalidatedUpTo,  \* history: per user, the newest commit whose pattern delete ran to its end without error
    returnedUpTo      \* history: per user, the newest commit whose dispatch has returned its record

vars == <<messageModel, redis, massCapable, strategyCall, redisCall, now, calls, createdBy, snapshotOf, writtenAt, invalidatedUpTo, returnedUpTo>>

Senders == {"telegramSender", "slackSender", "discordSender", "whatsappSender"}

NoDto == [platform |-> "none", recipients |-> <<>>, content |-> ""]

NoOutcome == [ok |-> FALSE, error |-> NoError, messages |-> <<>>, fromCache |-> FALSE, record |-> <<>>]

\* what getUserMessageStats has counted so far
NoStats == [total |-> 0, sent |-> 0, failed |-> 0, byPlatform |-> {}]

\* a call that has not been made yet
Idle ==
    [kind |-> "none", route |-> "none", pc |-> "idle", userId |-> <<>>,
     dto |-> NoDto, file |-> NoFile, fileUrl |-> Undefined, senderStrategy |-> "none",
     invocations |-> <<>>, sendResult |-> NoResult, keys |-> {},
     axios |-> "none", uploads |-> 0, caught |-> NoError, failedAt |-> "none", deletes |-> 0,
     redisErrors |-> {}, cachedAtGet |-> "none", hitAge |-> 0, calledAfter |-> {},
     limit |-> 0, offset |-> 0, messages |-> <<>>, stats |-> NoStats,
     asOf |-> 0, afterInvalidation |-> 0, afterReturn |-> 0,
     outcome |-> NoOutcome]

\* calls are made in the order of their numbers
InOrder(p) == \A q \in DOMAIN calls : q < p => calls[q].pc # "idle"

Max(a, b) == IF a >= b THEN a ELSE b

(***************************************************************************)
(* getUserMessages(userId, limit, offset)                                  *)
(***************************************************************************)
GetUserMessagesCall(p, userId, limit, offset) ==
    /\ calls[p].pc = "idle"
    /\ InOrder(p)
    /\ calls' = [calls EXCEPT ![p] = [@ EXCEPT !.kind = "list", !.pc = "redis_get",
                                          !.calledAfter = {q \in DOMAIN calls : /\ calls[q].kind = "list" /\ calls[q].pc = "done"
                                                                                    /\ calls[q].userId = userId
                                                                                    /\ calls[q].limit = limit /\ calls[q].offset = offset},
                                          !.userId = userId, !.limit = limit, !.offset = offset,
                                          !.afterInvalidation = invalidatedUpTo[userId],
                                          !.afterReturn = returnedUpTo[userId]]]
    /\ UNCHANGED <<messageModel, redis, massCapable, strategyCall, redisCall, now, createdBy, snapshotOf, writtenAt, invalidatedUpTo, returnedUpTo>>

\* history: what the cache store holds under a key
Held(key) ==
    IF key \notin DOMAIN redis THEN "absent"
    ELSE IF JsonParse(redis[key].value).ok THEN "page" ELSE "corrupt"

\* a catch block that answers with an empty page
CatchReadEmpty(c, error, at) ==
    [c EXCEPT !.pc = "done", !.caught = error, !.failedAt = at,
              !.outcome = [NoOutcome EXCEPT !.ok = TRUE]]

\* the catch block of getUserMessages: the error is logged and replaced
CatchRead(c, error, at) ==
    [c EXCEPT !.pc = "done", !.caught = error, !.failedAt = at,
              !.outcome = [NoOutcome EXCEPT !.error = ReadError]]

\* RedisService.get that lets the error of the client through
GetRejectedThrows(c) == CatchRead([c EXCEPT !.redisErrors = @ \cup {"get"}], CollaboratorError, "redis_get")

\* RedisService.get when the client rejects: the error is logged and null
\* is returned, which getUserMessages takes for a miss
GetRejected(c) == [c EXCEPT !.pc = "find", !.redisErrors = @ \cup {"get"}]

\* a hit that is treated as a miss
HitRequeries(c, key, text) == [c EXCEPT !.pc = "find"]

\* if (cachedData) { const messages = JSON.parse(cachedData); return {messages, fromCache: true} }
\* JSON.parse is inside the try of getUserMessages: a SyntaxError goes to its catch
Hit(c, key, text) ==
    IF JsonParse(text).ok
    THEN [c EXCEPT !.pc = "done", !.asOf = snapshotOf[key],
                   !.outcome = [NoOutcome EXCEPT !.ok = TRUE, !.fromCache = TRUE, !.messages = JsonParse(text).value]]
    ELSE CatchRead(c, JsonParse(text).error, "parse")

\* a read that resets the time to live of the entry it hits (GETEX key EX ttl)
RedisGetSliding(p) ==
    /\ calls[p].pc = "redis_get"
    /\ LET key == cacheKey(calls[p].userId, calls[p].limit, calls[p].offset)
           c == [calls[p] EXCEPT !.cachedAtGet = Held(key)]
       IN \/ /\ key \in DOMAIN redis
             /\ calls' = [calls EXCEPT ![p] = Hit([c EXCEPT !.hitAge = now - writtenAt[key]], key, redis[key].value)]
             /\ redis' = [redis EXCEPT ![key].ttl = CACHE_TTL]
          \/ /\ key \notin DOMAIN redis
             /\ calls' = [calls EXCEPT ![p] = [c EXCEPT !.pc = "find"]]
             /\ UNCHANGED redis
          \/ /\ calls' = [calls EXCEPT ![p] = GetRejected(c)]
             /\ UNCHANGED redis
    /\ UNCHANGED <<messageModel, massCapable, strategyCall, redisCall, now, createdBy, snapshotOf, writtenAt, invalidatedUpTo, returnedUpTo>>

\* const cachedData = await this.redisService.get(cacheKey), and the hit branch
RedisGet(p) ==
    /\ calls[p].pc = "redis_get"
    /\ LET key == cacheKey(calls[p].userId, calls[p].limit, calls[p].offset)
           c == [calls[p] EXCEPT !.cachedAtGet = Held(key)]
       IN \/ /\ key \in DOMAIN redis
             /\ calls' = [calls EXCEPT ![p] = Hit([c EXCEPT !.hitAge = now - writtenAt[key]], key, redis[key].value)]
          \/ /\ key \notin DOMAIN redis
             /\ calls' = [calls EXCEPT ![p] = [c EXCEPT !.pc = "find"]]
          \/ \* the client rejects
             /\ calls' = [calls EXCEPT ![p] = GetRejected(c)]
    /\ UNCHANGED <<messageModel, redis, massCapable, strategyCall, redisCall, now, createdBy, snapshotOf, writtenAt, invalidatedUpTo, returnedUpTo>>

\* no write of any page
ShouldCacheNever(messages) == FALSE

\* a write of every page, empty or not
ShouldCacheAlways(messages) == TRUE

\* if (messages.length > 0)
ShouldCache(messages) == Len(messages) > 0

\* await this.messageModel.find(...).exec(), and the return of a page that is not cached
Find(p) ==
    /\ calls[p].pc = "find"
    /\ LET c == calls[p]
           messages == FindPage(messageModel, c.userId, c.limit, c.offset)
       IN \/ /\ ShouldCache(messages)
             /\ calls' = [calls EXCEPT ![p] = [@ EXCEPT !.pc = "redis_set", !.messages = messages,
                                                      !.asOf = Len(messageModel)]]
          \/ /\ ~ShouldCache(messages)
             /\ calls' = [calls EXCEPT ![p] = [@ EXCEPT !.pc = "done", !.asOf = Len(messageModel),
                              !.outcome = [NoOutcome EXCEPT !.ok = TRUE, !.messages = messages]]]
          \/ \* the query rejects: the outer catch
             /\ calls' = [calls EXCEPT ![p] = CatchRead(c, CollaboratorError, "find")]
    /\ UNCHANGED <<messageModel, redis, massCapable, strategyCall, redisCall, now, createdBy, snapshotOf, writtenAt, invalidatedUpTo, returnedUpTo>>

\* return { messages, fromCache: false }
ReturnFromStore(c) == [c EXCEPT !.pc = "done", !.outcome = [NoOutcome EXCEPT !.ok = TRUE, !.messages = c.messages]]

\* RedisService.set that lets the error of the client through
SetRejectedThrows(c) == CatchRead([c EXCEPT !.redisErrors = @ \cup {"set"}], CollaboratorError, "redis_set")

\* RedisService.set when the client rejects: the error is logged and false
\* is returned, which getUserMessages does not look at
SetRejected(c) == ReturnFromStore([c EXCEPT !.redisErrors = @ \cup {"set"}])

\* await this.redisService.set(cacheKey, JSON.stringify(messages), this.CACHE_TTL), and the return
RedisSet(p) ==
    /\ calls[p].pc = "redis_set"
    /\ LET c == calls[p]
           key == cacheKey(c.userId, c.limit, c.offset)
           entry == [value |-> JsonStringify(c.messages), ttl |-> CACHE_TTL]
       IN \/ \* SETEX key ttl value
             /\ redis' = [k \in DOMAIN redis \cup {key} |-> IF k = key THEN entry ELSE redis[k]]
             /\ snapshotOf' = [k \in DOMAIN redis \cup {key} |-> IF k = key THEN c.asOf ELSE snapshotOf[k]]
             /\ writtenAt' = [k \in DOMAIN redis \cup {key} |-> IF k = key THEN now ELSE writtenAt[k]]
             /\ calls' = [calls EXCEPT ![p] = ReturnFromStore(c)]
          \/ \* the client rejects
             /\ calls' = [calls EXCEPT ![p] = SetRejected(c)]
             /\ UNCHANGED <<redis, snapshotOf, writtenAt>>
    /\ UNCHANGED <<messageModel, massCapable, strategyCall, redisCall, now, createdBy, invalidatedUpTo, returnedUpTo>>

(***************************************************************************)
(* sendMessage(createMessageDto, userId, file)                             *)
(***************************************************************************)
\* a catch block that rethrows what it caught
CatchRethrow(c, error, at) ==
    [c EXCEPT !.pc = "done", !.caught = error, !.failedAt = at,
              !.outcome = [NoOutcome EXCEPT !.error = error]]

\* the catch block of sendMessage: the error is logged and replaced
Catch(c, error, at) ==
    [c EXCEPT !.pc = "done", !.caught = error, !.failedAt = at,
              !.outcome = [NoOutcome EXCEPT !.error = ProcessingError]]

SendMessageCall(p, userId, dto, file) ==
    /\ calls[p].pc = "idle"
    /\ InOrder(p)
    /\ calls' = [calls EXCEPT ![p] = [@ EXCEPT !.kind = "send", !.route = "service",
                                          !.userId = userId, !.dto = dto, !.file = file,
                                          !.pc = IF file.present THEN "upload" ELSE "resolve"]]
    /\ UNCHANGED <<messageModel, redis, massCapable, strategyCall, redisCall, now, createdBy, snapshotOf, writtenAt, invalidatedUpTo, returnedUpTo>>

\* POST /messages/send: the ValidationPipe validates the body against
\* CreateMessageDto before the handler runs; the handler calls sendMessage
PostSend(p, userId, dto, file) ==
    /\ calls[p].pc = "idle"
    /\ InOrder(p)
    /\ \/ /\ ValidateDto(dto)
          /\ calls' = [calls EXCEPT ![p] = [@ EXCEPT !.kind = "send", !.route = "http",
                                                !.userId = userId, !.dto = dto, !.file = file,
                                                !.pc = IF file.present THEN "upload" ELSE "resolve"]]
       \/ /\ ~ValidateDto(dto)
          /\ calls' = [calls EXCEPT ![p] = [@ EXCEPT !.kind = "request", !.route = "http",
                                                !.userId = userId, !.dto = dto, !.file = file,
                                                !.pc = "done", !.caught = PipeError, !.failedAt = "pipe",
                                                !.outcome = [NoOutcome EXCEPT !.error = PipeError]]]
    /\ UNCHANGED <<messageModel, redis, massCapable, strategyCall, redisCall, now, createdBy, snapshotOf, writtenAt, invalidatedUpTo, returnedUpTo>>

\* fileUrl = await this.cloudinaryService.uploadFile(file)
Upload(p, axios) ==
    /\ calls[p].pc = "upload"
    /\ LET c == calls[p]
           uploaded == uploadFile(c.file, axios)
       IN \/ /\ uploaded.ok
             /\ calls' = [calls EXCEPT ![p] = [@ EXCEPT !.pc = "resolve", !.axios = axios, !.uploads = @ + 1,
                                                      !.fileUrl = uploaded.url]]
          \/ /\ ~uploaded.ok
             /\ calls' = [calls EXCEPT ![p] = Catch([c EXCEPT !.axios = axios, !.uploads = @ + 1], uploaded.error, "upload")]
    /\ UNCHANGED <<messageModel, redis, massCapable, strategyCall, redisCall, now, createdBy, snapshotOf, writtenAt, invalidatedUpTo, returnedUpTo>>

\* getSender(platform), then the calls on the strategy of lines 61-86
Resolve(p) ==
    /\ calls[p].pc = "resolve"
    /\ LET c == calls[p]
           resolved == getSender(c.dto.platform)
       IN \/ /\ resolved.ok
             /\ calls' = [calls EXCEPT ![p] = [@ EXCEPT !.pc = "await_send", !.senderStrategy = resolved.sender,
                              !.invocations = IssueSends(resolved.sender \in massCapable, c.dto.recipients,
                                                         c.dto.content, c.fileUrl)]]
          \/ /\ ~resolved.ok
             /\ calls' = [calls EXCEPT ![p] = Catch(c, resolved.error, "resolve")]
    /\ UNCHANGED <<messageModel, redis, massCapable, strategyCall, redisCall, now, createdBy, snapshotOf, writtenAt, invalidatedUpTo, returnedUpTo>>

\* the strategy settles the promise of its i-th call: with a SendResult, or by rejecting
Settle(p, i, result) ==
    /\ calls[p].pc = "await_send"
    /\ i \in 1..Len(calls[p].invocations)
    /\ calls[p].invocations[i].state = "pending"
    /\ \/ calls' = [calls EXCEPT ![p].invocations[i] = [@ EXCEPT !.state = "resolved", !.result = result]]
       \/ calls' = [calls EXCEPT ![p].invocations[i] = [@ EXCEPT !.state = "rejected"]]
    /\ UNCHANGED <<messageModel, redis, massCapable, strategyCall, redisCall, now, createdBy, snapshotOf, writtenAt, invalidatedUpTo, returnedUpTo>>

\* the orchestrator resumes from "await senderStrategy.send..." / "await Promise.all(...)"
Resume(p) ==
    /\ calls[p].pc = "await_send"
    /\ LET c == calls[p]
           fallback == Len(c.dto.recipients) # 1 /\ c.senderStrategy \notin massCapable
       IN \/ /\ PromiseAll(c.invocations) = "resolved"
             /\ calls' = [calls EXCEPT ![p] = [@ EXCEPT !.pc = "save",
                              !.sendResult = SendResultOf(fallback, c.invocations)]]
          \/ /\ PromiseAll(c.invocations) = "rejected"
             /\ calls' = [calls EXCEPT ![p] = Catch(c, CollaboratorError, "send")]
    /\ UNCHANGED <<messageModel, redis, massCapable, strategyCall, redisCall, now, createdBy, snapshotOf, writtenAt, invalidatedUpTo, returnedUpTo>>

\* a save whose rejection is dropped: the call returns without a record
SaveRejectedReturns(c, error) ==
    [c EXCEPT !.pc = "done", !.caught = error, !.failedAt = "save", !.outcome = [NoOutcome EXCEPT !.ok = TRUE]]

\* await newMessage.save() rejects: the await throws inside the try of
\* sendMessage, ahead of the call of invalidateUserCache
SaveRejected(c, error) == Catch(c, error, "save")

\* a save that writes over the document of the dispatch before it
SaveOverwrites(p) ==
    /\ calls[p].pc = "save"
    /\ LET c == calls[p]
           last == Len(messageModel)
           over == last > 0 /\ createdBy[last] # 0
           newMessage == NewDocument(IF over THEN last ELSE last + 1, c.userId, c.dto, c.fileUrl, Sent(c.sendResult))
       IN \/ /\ SchemaValid(newMessage)
             /\ messageModel' = IF over THEN [messageModel EXCEPT ![last] = newMessage] ELSE Append(messageModel, newMessage)
             /\ createdBy' = IF over THEN [createdBy EXCEPT ![last] = p] ELSE Append(createdBy, p)
             /\ calls' = [calls EXCEPT ![p] = [@ EXCEPT !.pc = "keys",
                              !.outcome = [@ EXCEPT !.record = <<newMessage>>]]]
          \/ /\ calls' = [calls EXCEPT ![p] = SaveRejected(c, IF SchemaValid(newMessage) THEN CollaboratorError ELSE SchemaError)]
             /\ UNCHANGED <<messageModel, createdBy>>
    /\ UNCHANGED <<redis, massCapable, strategyCall, redisCall, now, snapshotOf, writtenAt, invalidatedUpTo, returnedUpTo>>

\* const savedMessage = await newMessage.save()
Save(p) ==
    /\ calls[p].pc = "save"
    /\ LET c == calls[p]
           newMessage == NewDocument(Len(messageModel) + 1, c.userId, c.dto, c.fileUrl, Sent(c.sendResult))
       IN \/ /\ SchemaValid(newMessage)
             /\ messageModel' = Append(messageModel, newMessage)
             /\ createdBy' = Append(createdBy, p)
             /\ calls' = [calls EXCEPT ![p] = [@ EXCEPT !.pc = "keys",
                              !.outcome = [@ EXCEPT !.record = <<newMessage>>]]]
          \/ \* the document fails the validators of the schema, or the store rejects the save
             /\ calls' = [calls EXCEPT ![p] = SaveRejected(c, IF SchemaValid(newMessage) THEN CollaboratorError ELSE SchemaError)]
             /\ UNCHANGED <<messageModel, createdBy>>
    /\ UNCHANGED <<redis, massCapable, strategyCall, redisCall, now, snapshotOf, writtenAt, invalidatedUpTo, returnedUpTo>>

\* the call has returned savedMessage
Returned(c) == [c EXCEPT !.pc = "done", !.outcome = [@ EXCEPT !.ok = TRUE]]

\* the commit of the call's record: its position in the collection
Commit(c) == c.outcome.record[1]._id[2]

\* an invalidation whose error reaches the try of sendMessage
InvalidationFailedThrows(c, command) ==
    Catch([c EXCEPT !.redisErrors = @ \cup {command}], CollaboratorError, "invalidate")

\* the client rejects a command of deleteByPattern: the error is logged and 0
\* is returned (invalidateUserCache has a catch of its own behind that), and
\* sendMessage goes on to return savedMessage
InvalidationFailed(c, command) == Returned([c EXCEPT !.redisErrors = @ \cup {command}])

\* invalidateUserCache -> deleteByPattern: const keys = await this.client.keys(pattern)
Keys(p) ==
    /\ calls[p].pc = "keys"
    /\ LET c == calls[p]
           keys == {k \in DOMAIN redis : GlobMatch(pattern(c.userId), k)}
       IN \/ /\ keys # {}
             /\ calls' = [calls EXCEPT ![p] = [@ EXCEPT !.pc = "del", !.keys = keys, !.deletes = @ + 1]]
             /\ UNCHANGED <<invalidatedUpTo, returnedUpTo>>
          \/ /\ keys = {}
             /\ calls' = [calls EXCEPT ![p] = [Returned(c) EXCEPT !.deletes = @ + 1]]
             /\ invalidatedUpTo' = [invalidatedUpTo EXCEPT ![c.userId] = Max(@, Commit(c))]
             /\ returnedUpTo' = [returnedUpTo EXCEPT ![c.userId] = Max(@, Commit(c))]
          \/ \* the client rejects
             /\ calls' = [calls EXCEPT ![p] = InvalidationFailed([c EXCEPT !.deletes = @ + 1], "keys")]
             /\ returnedUpTo' = [returnedUpTo EXCEPT ![c.userId] = Max(@, Commit(c))]
             /\ UNCHANGED invalidatedUpTo
    /\ UNCHANGED <<messageModel, redis, massCapable, strategyCall, redisCall, now, createdBy, snapshotOf, writtenAt>>

\* const result = await this.client.del(...keys)
Del(p) ==
    /\ calls[p].pc = "del"
    /\ LET c == calls[p]
       IN /\ \/ /\ redis' = [k \in DOMAIN redis \ c.keys |-> redis[k]]
                /\ snapshotOf' = [k \in DOMAIN redis \ c.keys |-> snapshotOf[k]]
                /\ writtenAt' = [k \in DOMAIN redis \ c.keys |-> writtenAt[k]]
                /\ invalidatedUpTo' = [invalidatedUpTo EXCEPT ![c.userId] = Max(@, Commit(c))]
                /\ calls' = [calls EXCEPT ![p] = Returned(c)]
             \/ \* the client rejects
                /\ calls' = [calls EXCEPT ![p] = InvalidationFailed(c, "del")]
                /\ UNCHANGED <<redis, snapshotOf, writtenAt, invalidatedUpTo>>
          /\ returnedUpTo' = [returnedUpTo EXCEPT ![c.userId] = Max(@, Commit(c))]
    /\ UNCHANGED <<messageModel, massCapable, strategyCall, redisCall, now, createdBy>>

(***************************************************************************)
(* The cache store as time passes.                                         *)
(***************************************************************************)
\* the step of the clock: half the time to live of an entry
TickSeconds == CACHE_TTL \div 2

\* d seconds pass: every time to live runs down by d, and the store drops
\* the entries whose time to live has run out
Tick(d) ==
    /\ now + d <= MaxTicks * TickSeconds
    /\ now' = now + d
    /\ LET live == {k \in DOMAIN redis : redis[k].ttl > d}
       IN /\ redis' = [k \in live |-> [redis[k] EXCEPT !.ttl = @ - d]]
          /\ snapshotOf' = [k \in live |-> snapshotOf[k]]
          /\ writtenAt' = [k \in live |-> writtenAt[k]]
    /\ UNCHANGED <<messageModel, massCapable, strategyCall, redisCall, calls, createdBy, invalidatedUpTo, returnedUpTo>>

(***************************************************************************)
(* Requests.                                                               *)
(***************************************************************************)
RECURSIVE Lists(_)
Lists(n) == IF n = 0 THEN {<<>>} ELSE Lists(n - 1) \cup {Append(l, r) : l \in Lists(n - 1), r \in Recipients}

\* requests of the single-dispatch specification: every tag, supported or not,
\* every recipient list of 0..MaxRecipients entries (the service checks neither)
Dtos == [platform : SupportedPlatforms \cup UnsupportedTags, recipients : Lists(MaxRecipients), content : Contents]

\* bodies of POST /messages/send: the same, and those with no recipient,
\* with an empty content or with a content of more than 5000 characters
RequestDtos == [platform : SupportedPlatforms \cup UnsupportedTags, recipients : Lists(MaxRecipients), content : Contents \cup {"", TooLong}]

\* requests of the concurrent specification
ConcurrentDtos == {[platform |-> "telegram", recipients |-> <<"r1">>, content |-> "hi"]}

\* pagination windows (limit, offset)
Windows == {<<1, 0>>, <<1, 1>>, <<10, 0>>}

\* pagination windows of the read specification: the last two put the same
\* digits on either side of the separator
ReadWindows == {<<1, 0>>, <<1, 10>>, <<11, 0>>}

\* the wirings of the factory: the four senders of the repository all define
\* sendMassMessage; the interface makes it optional and the tests inject
\* strategies without it
Wirings == {Senders, {}, {"telegramSender", "whatsappSender"}}

\* what earlier calls may have left behind: a document of each user, saved by
\* sendMessage, and the pages that getUserMessages cached for them
SeedDocs ==
    <<NewDocument(1, <<"a">>, [platform |-> "telegram", recipients |-> <<"r1">>, content |-> "hi"], Undefined, TRUE),
      NewDocument(2, <<"a", "b">>, [platform |-> "slack", recipients |-> <<"r2", "r1">>, content |-> "hi"], SecureUrl, FALSE)>>

SeedWindows == {<<1, 0>>, <<10, 0>>}

SeedRedis ==
    LET cached == Users \X SeedWindows
        keyOf(x) == cacheKey(x[1], x[2][1], x[2][2])
    IN [k \in {keyOf(x) : x \in cached} |->
            LET x == CHOOSE y \in cached : keyOf(y) = k
            IN [value |-> JsonStringify(FindPage(SeedDocs, x[1], x[2][1], x[2][2])), ttl |-> CACHE_TTL]]

(***************************************************************************)
(* Specifications.                                                         *)
(***************************************************************************)
\* concurrent calls of both operations, production wiring, on a store that
\* holds the documents of earlier dispatches and a cache that holds nothing
Init ==
    /\ messageModel = SeedDocs
    /\ createdBy = [i \in 1..Len(SeedDocs) |-> 0]
    /\ redis = <<>>
    /\ snapshotOf = <<>>
    /\ writtenAt = <<>>
    /\ now = 0
    /\ massCapable = Senders
    /\ strategyCall = IdleStrategy
    /\ redisCall = IdleRedis
    /\ calls = [p \in 1..MaxCalls |-> Idle]
    /\ invalidatedUpTo = [u \in Users |-> 0]
    /\ returnedUpTo = [u \in Users |-> 0]

Next ==
    \E p \in 1..MaxCalls :
        \/ \E u \in Users, dto \in ConcurrentDtos : SendMessageCall(p, u, dto, NoFile)
        \/ \E u \in Users, w \in Windows : GetUserMessagesCall(p, u, w[1], w[2])
        \/ RedisGet(p)
        \/ Find(p)
        \/ RedisSet(p)
        \/ Resolve(p)
        \/ \E r \in {[success |-> <<TRUE>>], [success |-> <<FALSE>>]} : Settle(p, 1, r)
        \/ Resume(p)
        \/ Save(p)
        \/ Keys(p)
        \/ Del(p)

Spec == Init /\ [][Next]_vars

\* one dispatch, called on the service or posted to the controller, of every
\* request and under every wiring, on a store and a
\* cache that are empty or hold what earlier calls left
InitDispatch ==
    /\ \/ /\ messageModel = <<>>
          /\ createdBy = <<>>
          /\ redis = <<>>
          /\ snapshotOf = <<>>
          /\ writtenAt = <<>>
       \/ /\ messageModel = SeedDocs
          /\ createdBy = [i \in 1..Len(SeedDocs) |-> 0]
          /\ redis = SeedRedis
          /\ snapshotOf = [k \in DOMAIN SeedRedis |-> Len(SeedDocs)]
          /\ writtenAt = [k \in DOMAIN SeedRedis |-> 0]
    /\ massCapable \in Wirings
    /\ strategyCall = IdleStrategy
    /\ redisCall = IdleRedis
    /\ now = 0
    /\ calls = [p \in {1} |-> Idle]
    /\ invalidatedUpTo = [u \in Users |-> 0]
    /\ returnedUpTo = [u \in Users |-> 0]

NextDispatch ==
    \E p \in {1} :
        \/ \E u \in Users, dto \in Dtos, file \in {NoFile} \cup Files : SendMessageCall(p, u, dto, file)
        \/ \E u \in Users, dto \in RequestDtos, file \in {NoFile} \cup Files : PostSend(p, u, dto, file)
        \/ \E axios \in AxiosOutcomes : Upload(p, axios)
        \/ Resolve(p)
        \/ \E i \in 1..MaxRecipients, r \in SendResults : Settle(p, i, r)
        \/ Resume(p)
        \/ Save(p)
        \/ Keys(p)
        \/ Del(p)

SpecDispatch == InitDispatch /\ [][NextDispatch]_vars

\* entries that JSON.parse cannot read, under the keys of the seeded pages
\* (the cache store is shared: truncated values, values of another writer)
CorruptRedis == [k \in DOMAIN SeedRedis |-> [value |-> Corrupt, ttl |-> CACHE_TTL]]

\* no call is between its first step and its return
Quiet == \A q \in DOMAIN calls : calls[q].pc \in {"idle", "done"}

\* calls of getUserMessages made one after the other, with half days passing
\* between them (a call takes far less than a step of this clock), on
\* a store that is empty or holds the documents of earlier dispatches and a
\* cache that is empty, holds the pages of earlier reads, or holds unreadable
\* values (reads that overlap each other and dispatches are those of Spec)
InitRead ==
    /\ \/ /\ messageModel = <<>>
          /\ redis \in {<<>>, CorruptRedis}
       \/ /\ messageModel = SeedDocs
          /\ redis \in {<<>>, SeedRedis, CorruptRedis}
    /\ createdBy = [i \in 1..Len(messageModel) |-> 0]
    /\ snapshotOf = [k \in DOMAIN redis |-> Len(messageModel)]
    /\ writtenAt = [k \in DOMAIN redis |-> 0]
    /\ now = 0
    /\ massCapable = Senders
    /\ strategyCall = IdleStrategy
    /\ redisCall = IdleRedis
    /\ calls = [p \in 1..MaxReads |-> Idle]
    /\ invalidatedUpTo = [u \in Users |-> 0]
    /\ returnedUpTo = [u \in Users |-> 0]

NextRead ==
    \/ \E p \in 1..MaxReads :
           \/ Quiet /\ \E u \in Users, w \in ReadWindows : GetUserMessagesCall(p, u, w[1], w[2])
           \/ RedisGet(p)
           \/ Find(p)
           \/ RedisSet(p)
    \/ Quiet /\ Tick(TickSeconds)

SpecRead == InitRead /\ [][NextRead]_vars

(***************************************************************************)
(* Claims about the cache-aside read path under concurrent calls (Spec).   *)
(***************************************************************************)
Reads == {p \in DOMAIN calls : calls[p].kind = "list"}
Dispatches == {p \in DOMAIN calls : calls[p].kind = "send"}

\* the call returned a page taken from the cache
ServedFromCache(p) == calls[p].pc = "done" /\ calls[p].outcome.ok /\ calls[p].outcome.fromCache

\* C1: a getUserMessages call for user U made after a dispatch for U has
\* returned its record is never served a cached page that was queried before
\* that dispatch's commit: the pages cached before the dispatch are gone, so
\* the call re-queries the store (fromCache=false) before a cached value is
\* served again.
C1_ReadAfterDispatchRequeries ==
    \A p \in Reads : ServedFromCache(p) => calls[p].asOf >= calls[p].afterReturn

\* C2: under any interleaving, a getUserMessages call made after a dispatch
\* of the same user has committed and its pattern delete has run to its end
\* (KEYS and DEL both answered) is never served, with fromCache=true, a page
\* that was queried from the store before that commit.
C2_NoSnapshotOlderThanInvalidation ==
    \A p \in Reads : ServedFromCache(p) => calls[p].asOf >= calls[p].afterInvalidation

(***************************************************************************)
(* Claims about one dispatch (SpecDispatch).                               *)
(***************************************************************************)
\* the documents saved by call p
RecordsOf(p) == {i \in 1..Len(messageModel) : createdBy[i] = p}

\* the call got its strategy from the selector and issued its sends
Resolved(c) == c.kind = "send" /\ c.senderStrategy # "none"

\* the file argument every send of the call must carry
FileArgument(c) == IF c.file.present THEN SecureUrl ELSE Undefined

\* the i-th call on the strategy is sendMessage for recipient r
IsSendOne(c, i, r) ==
    /\ c.invocations[i].method = "sendMessage"
    /\ c.invocations[i].data.recipient = r
    /\ c.invocations[i].data.content = c.dto.content
    /\ c.invocations[i].data.file = FileArgument(c)

\* C3: a dispatch with exactly one recipient that reaches the send step
\* calls the strategy's sendMessage exactly once, with (recipients[0],
\* content, uploaded URL or undefined), and never sendMassMessage, whether or
\* not the strategy defines sendMassMessage.
C3_SingleRecipientSendsOne ==
    \A p \in Dispatches :
        LET c == calls[p]
        IN (Resolved(c) /\ Len(c.dto.recipients) = 1) =>
               /\ Len(c.invocations) = 1
               /\ IsSendOne(c, 1, c.dto.recipients[1])

C3_Witness ==
    \E p \in Dispatches :
        /\ calls[p].pc = "done" /\ calls[p].outcome.ok
        /\ Len(calls[p].dto.recipients) = 1
        /\ calls[p].senderStrategy \in massCapable
        /\ calls[p].file.present
        /\ Len(calls[p].invocations) = 1 /\ calls[p].invocations[1].method = "sendMessage"

\* C4: a dispatch with two or more recipients whose strategy defines
\* sendMassMessage calls sendMassMessage exactly once with the whole
\* recipient list in the order of the request, and never sendMessage.
C4_MassSendsOnce ==
    \A p \in Dispatches :
        LET c == calls[p]
        IN (Resolved(c) /\ Len(c.dto.recipients) >= 2 /\ c.senderStrategy \in massCapable) =>
               /\ Len(c.invocations) = 1
               /\ c.invocations[1].method = "sendMassMessage"
               /\ c.invocations[1].data.recipients = c.dto.recipients
               /\ c.invocations[1].data.content = c.dto.content
               /\ c.invocations[1].data.file = FileArgument(c)

C4_Witness ==
    \E p \in Dispatches :
        /\ calls[p].pc = "done" /\ calls[p].outcome.ok
        /\ calls[p].dto.recipients = <<"r2", "r1">>
        /\ calls[p].senderStrategy \in massCapable
        /\ calls[p].invocations[1].method = "sendMassMessage"
        /\ calls[p].invocations[1].data.recipients = <<"r2", "r1">>

\* the send step of the call has completed without throwing
SendCompleted(c) == c.pc \in {"save", "keys", "del"} \/ (c.pc = "done" /\ c.failedAt \in {"none", "save"})

\* C5: a dispatch with two or more recipients whose strategy has no
\* sendMassMessage calls sendMessage once per entry of the recipient list,
\* and the combined success is true exactly when every individual result
\* has success = true.
C5_FallbackOnePerRecipient ==
    \A p \in Dispatches :
        LET c == calls[p]
        IN (Resolved(c) /\ Len(c.dto.recipients) >= 2 /\ c.senderStrategy \notin massCapable) =>
               /\ Len(c.invocations) = Len(c.dto.recipients)
               /\ \A i \in 1..Len(c.dto.recipients) : IsSendOne(c, i, c.dto.recipients[i])
               /\ SendCompleted(c) =>
                      /\ c.sendResult.success # <<>>
                      /\ c.sendResult.success[1] <=>
                             \A i \in 1..Len(c.invocations) : c.invocations[i].result.success = <<TRUE>>

C5_Witness ==
    \E p \in Dispatches :
        /\ calls[p].pc = "done" /\ calls[p].outcome.ok
        /\ Len(calls[p].dto.recipients) >= 2
        /\ calls[p].senderStrategy \notin massCapable
        /\ calls[p].invocations[1].result.success = <<TRUE>>
        /\ calls[p].invocations[2].result.success = <<FALSE>>
        /\ calls[p].sendResult.success = <<FALSE>>

\* the call saved exactly one document, whose sent flag is the combined success
OneRecordWithOutcome(p) ==
    /\ Cardinality(RecordsOf(p)) = 1
    /\ \A i \in RecordsOf(p) : messageModel[i].sent = (calls[p].sendResult.success = <<TRUE>>)

\* C6 as stated: every dispatch whose upload, strategy resolution and send
\* step complete without throwing persists exactly one record, with sent
\* equal to the combined success.
C6_Original ==
    \A p \in Dispatches :
        (calls[p].pc = "done" /\ SendCompleted(calls[p])) => OneRecordWithOutcome(p)

\* C6 as amended: every dispatch whose upload, strategy resolution and send
\* step complete without throwing and whose save the store accepts persists
\* exactly one record and returns it, with sent equal to the combined success
\* (false when the strategy reported success = false or no success field);
\* when the store rejects the save the dispatch persists nothing and fails
\* with the generic processing error.
C6_PersistsOutcome ==
    \A p \in Dispatches :
        LET c == calls[p]
        IN /\ (c.pc = "done" /\ SendCompleted(c) /\ c.failedAt = "none") =>
                  /\ OneRecordWithOutcome(p)
                  /\ c.outcome.ok
                  /\ \A i \in RecordsOf(p) : c.outcome.record = <<messageModel[i]>>
           /\ (c.pc = "done" /\ c.failedAt = "save") =>
                  /\ RecordsOf(p) = {}
                  /\ ~c.outcome.ok
                  /\ c.outcome.error = ProcessingError

C6_Witness ==
    \E p \in Dispatches :
        /\ calls[p].pc = "done" /\ calls[p].outcome.ok
        /\ calls[p].sendResult.success = <<>>
        /\ Cardinality(RecordsOf(p)) = 1
        /\ \A i \in RecordsOf(p) : ~messageModel[i].sent

\* C7: within one dispatch, a send is issued only once the upload (if any)
\* has completed, the record is saved only once every send issued has
\* settled, the pattern delete is issued only once the record is saved, and
\* the call returns only once the pattern delete has finished.
C7_DispatchOrder ==
    \A p \in Dispatches :
        LET c == calls[p]
        IN /\ (c.invocations # <<>> /\ c.file.present) => (c.pc # "upload" /\ c.fileUrl = SecureUrl)
           /\ RecordsOf(p) # {} => \A i \in 1..Len(c.invocations) : c.invocations[i].state # "pending"
           /\ RecordsOf(p) # {} => c.invocations # <<>>
           /\ (c.deletes > 0 \/ c.pc = "del") => RecordsOf(p) # {}
           /\ c.outcome.ok => (c.pc = "done" /\ c.deletes = 1 /\ RecordsOf(p) # {})

C7_Witness ==
    \E p \in Dispatches :
        /\ calls[p].pc = "done" /\ calls[p].outcome.ok
        /\ calls[p].file.present
        /\ Len(calls[p].invocations) >= 2
        /\ calls[p].keys # {}
        /\ RecordsOf(p) # {}

\* nothing of the send, save and invalidation steps has happened for the call
NothingDone(p) ==
    /\ calls[p].invocations = <<>>
    /\ RecordsOf(p) = {}
    /\ calls[p].deletes = 0
    /\ calls[p].pc # "keys" /\ calls[p].pc # "del"

\* C8: for every tag outside the four platforms getSender fails with an
\* error that names the tag and the valid tags, and a dispatch with such a
\* tag sends nothing, persists nothing and invalidates nothing.
C8_UnsupportedPlatform ==
    /\ \A tag \in UnsupportedTags :
           /\ ~getSender(tag).ok
           /\ getSender(tag).error.name = "BadRequestException"
           /\ getSender(tag).error.message[2] = tag
           /\ getSender(tag).error.message[3] = ". Opciones válidas: telegram, slack, discord, whatsapp"
    /\ \A p \in Dispatches :
           LET c == calls[p]
           IN c.dto.platform \notin SupportedPlatforms =>
                  /\ NothingDone(p)
                  /\ c.pc \notin {"upload", "resolve"} =>
                         /\ c.pc = "done" /\ ~c.outcome.ok
                         /\ c.failedAt = "resolve" => c.caught = getSender(c.dto.platform).error

C8_Witness ==
    \E p \in Dispatches :
        /\ calls[p].dto.platform \in UnsupportedTags
        /\ calls[p].pc = "done"
        /\ calls[p].failedAt = "resolve"
        /\ calls[p].fileUrl = SecureUrl
        /\ redis # <<>>

\* the upload of the call's file has been tried and has failed
UploadFailed(c) ==
    /\ c.kind = "send" /\ c.file.present /\ c.pc # "upload"
    /\ c.file.size > MaxFileSize \/ c.axios # "secure_url"

\* C9: when a file is attached and its upload fails, the dispatch aborts
\* with an error before any send: no sendMessage or sendMassMessage call, no
\* record, no cache invalidation.
C9_UploadFailureAborts ==
    \A p \in Dispatches :
        UploadFailed(calls[p]) =>
            /\ calls[p].pc = "done" /\ ~calls[p].outcome.ok
            /\ calls[p].outcome.error.name = "InternalServerErrorException"
            /\ NothingDone(p)

C9_Witness ==
    \E p \in Dispatches :
        /\ UploadFailed(calls[p])
        /\ calls[p].axios = "no_secure_url"
        /\ calls[p].file.size <= MaxFileSize
        /\ calls[p].dto.platform \in SupportedPlatforms
        /\ redis # <<>>

\* an exception was thrown in the upload, the resolution or the send step
Threw(c) ==
    \/ UploadFailed(c)
    \/ c.kind = "send" /\ c.pc \notin {"idle", "upload", "resolve"} /\ c.dto.platform \notin SupportedPlatforms
    \/ c.kind = "send" /\ c.pc # "await_send" /\ \E i \in 1..Len(c.invocations) : c.invocations[i].state = "rejected"

\* C10: an exception thrown during the upload, the strategy resolution or
\* the send step (the strategy itself throwing included) reaches the caller
\* as the one InternalServerErrorException 'Error al procesar el envío del
\* mensaje', and no record has been written.
C10_GenericErrorNoRecord ==
    \A p \in Dispatches :
        Threw(calls[p]) =>
            /\ calls[p].pc = "done" /\ ~calls[p].outcome.ok
            /\ calls[p].outcome.error = [name |-> "InternalServerErrorException",
                                         message |-> <<"Error al procesar el envío del mensaje">>]
            /\ calls[p].outcome.record = <<>>
            /\ RecordsOf(p) = {}

C10_Witness ==
    \E p \in Dispatches :
        /\ calls[p].pc = "done"
        /\ calls[p].failedAt = "send"
        /\ Len(calls[p].invocations) >= 2
        /\ calls[p].invocations[1].state = "resolved"
        /\ calls[p].invocations[2].state = "rejected"

\* the pattern delete of the call has failed at one of its steps
InvalidationErrored(c) == c.kind = "send" /\ c.redisErrors \cap {"keys", "del"} # {}

\* C11: when the pattern delete of a dispatch errors, at KEYS or at DEL, the
\* dispatch still returns the record it persisted and no error reaches the
\* caller of sendMessage.
C11_InvalidationFailureSwallowed ==
    \A p \in Dispatches :
        LET c == calls[p]
        IN InvalidationErrored(c) =>
               /\ c.pc = "done" /\ c.outcome.ok
               /\ c.outcome.error = [name |-> "none", message |-> <<>>]
               /\ Cardinality(RecordsOf(p)) = 1
               /\ \A i \in RecordsOf(p) : c.outcome.record = <<messageModel[i]>>

C11_Witness ==
    \E p \in Dispatches :
        /\ calls[p].redisErrors = {"del"}
        /\ calls[p].pc = "done" /\ calls[p].outcome.ok
        /\ calls[p].keys # {} /\ calls[p].keys \subseteq DOMAIN redis
        /\ calls[p].outcome.record # <<>>

(***************************************************************************)
(* Claims about the read path (SpecRead).                                  *)
(***************************************************************************)
\* the page the store held for the window of the call when the call queried it
PageOf(c) == FindPage(SubSeq(messageModel, 1, c.asOf), c.userId, c.limit, c.offset)

\* the call has returned the page of the store, not taken from the cache
ReturnedStorePage(c) ==
    /\ c.pc = "done" /\ c.outcome.ok /\ ~c.outcome.fromCache
    /\ c.outcome.error = [name |-> "none", message |-> <<>>]
    /\ c.outcome.messages = PageOf(c)

\* C12: a read whose cache read fails (the client rejects GET) is not failed
\* by it: the call goes on to query the persistent store and, unless the
\* store itself rejects the query, returns the store's page with
\* fromCache=false.
C12_CacheReadFailureFallsBack ==
    \A p \in Reads :
        LET c == calls[p]
        IN "get" \in c.redisErrors =>
               /\ c.pc \in {"find", "redis_set", "done"}
               /\ c.failedAt \in {"none", "find"}
               /\ (c.pc = "done" /\ c.failedAt = "none") => ReturnedStorePage(c)

C12_Witness ==
    \E p \in Reads :
        /\ calls[p].redisErrors = {"get"}
        /\ calls[p].cachedAtGet = "page"
        /\ ReturnedStorePage(calls[p])
        /\ calls[p].outcome.messages # <<>>

\* C13: a read that gets, under its key, a value that cannot be deserialized
\* treats it as a miss: it does not fail on it, and once it has returned it
\* has returned the store's page with fromCache=false (unless the store
\* itself rejected the query).
C13_CorruptEntryIsMiss ==
    \A p \in Reads :
        LET c == calls[p]
        IN (c.cachedAtGet = "corrupt" /\ "get" \notin c.redisErrors) =>
               /\ c.failedAt \in {"none", "find"}
               /\ (c.pc = "done" /\ c.failedAt = "none") => ReturnedStorePage(c)

\* C14: a read that missed the cache, got a non-empty page from the store
\* and whose cache write fails (the client rejects SETEX) is not failed by
\* it: it returns the store's items with fromCache=false.
C14_CacheWriteFailureSwallowed ==
    \A p \in Reads :
        LET c == calls[p]
        IN "set" \in c.redisErrors =>
               /\ ReturnedStorePage(c)
               /\ c.outcome.messages # <<>>
               /\ c.failedAt = "none"

C14_Witness ==
    \E p \in Reads :
        /\ calls[p].redisErrors = {"set"}
        /\ calls[p].cachedAtGet = "absent"
        /\ ReturnedStorePage(calls[p])
        /\ Len(calls[p].outcome.messages) > 0
        /\ cacheKey(calls[p].userId, calls[p].limit, calls[p].offset) \notin DOMAIN redis

\* the cache key of the call
KeyOf(c) == cacheKey(c.userId, c.limit, c.offset)

\* the call found zero records in the store and has returned
ReturnedEmpty(c) == c.kind = "list" /\ ReturnedStorePage(c) /\ c.outcome.messages = <<>>

\* C15: an empty store result is never written to the cache: no entry holds
\* an empty page, a call that found zero records leaves no entry under its
\* key and has attempted no cache write, and a read of the same window
\* repeated after it returns fromCache=false with zero records again.
C15_EmptyPageNeverCached ==
    /\ \A k \in DOMAIN redis :
           JsonParse(redis[k].value).ok => Len(JsonParse(redis[k].value).value) > 0
    /\ \A p \in Reads :
           ReturnedEmpty(calls[p]) =>
               /\ Held(KeyOf(calls[p])) # "page"
               /\ calls[p].cachedAtGet = "absent" => KeyOf(calls[p]) \notin DOMAIN redis
               /\ "set" \notin calls[p].redisErrors
    /\ \A q \in Reads : \A p \in calls[q].calledAfter :
           (ReturnedEmpty(calls[p]) /\ calls[q].pc = "done" /\ calls[q].failedAt = "none") =>
               ReturnedEmpty(calls[q])

C15_Witness ==
    \E q \in Reads : \E p \in calls[q].calledAfter :
        /\ ReturnedEmpty(calls[p]) /\ ReturnedEmpty(calls[q])
        /\ calls[p].redisErrors = {} /\ calls[q].redisErrors = {}
        /\ calls[p].cachedAtGet = "absent" /\ calls[q].cachedAtGet = "absent"
        /\ Filter(messageModel, calls[q].userId) # <<>>
        /\ redis = <<>>

\* the arguments of the call
TripleOf(c) == <<c.userId, c.limit, c.offset>>

\* C16: the cache key is a function of (userId, limit, offset) alone and is
\* injective: two reads have the same key exactly when they have the same
\* triple, so that for one user different limits or different offsets give
\* different keys and keys of different users never collide (the reads
\* range over every pair of triples of Users and ReadWindows).
C16_KeyInjective ==
    \A p, q \in Reads :
        p < q =>
            LET kp == KeyOf(calls[p])
                kq == KeyOf(calls[q])
            IN /\ (kp = kq) <=> (TripleOf(calls[p]) = TripleOf(calls[q]))
               /\ calls[p].userId # calls[q].userId => kp # kq
               /\ (calls[p].userId = calls[q].userId /\ calls[p].limit # calls[q].limit) => kp # kq
               /\ (calls[p].userId = calls[q].userId /\ calls[p].offset # calls[q].offset) => kp # kq

C16_Witness ==
    \E p, q \in Reads :
        /\ TripleOf(calls[p]) = <<<<"a">>, 11, 0>>
        /\ TripleOf(calls[q]) = <<<<"a">>, 1, 10>>
        /\ ReturnedStorePage(calls[p]) /\ KeyOf(calls[p]) \in DOMAIN redis
        /\ ReturnedEmpty(calls[q]) /\ calls[q].cachedAtGet = "absent" /\ calls[q].redisErrors = {}

\* the call found no entry under its key, the cache client answered each of
\* its commands, and the store answered its query with a non-empty page
FirstRead(c) ==
    /\ c.kind = "list" /\ c.pc = "done"
    /\ c.cachedAtGet = "absent" /\ c.redisErrors = {} /\ c.failedAt = "none"
    /\ PageOf(c) # <<>>

\* the item list that JSON.parse gives back for the text JSON.stringify wrote
Stored(page) == JsonParse(JsonStringify(page)).value

\* C17: a read that finds no entry under its key and a non-empty page in
\* the store returns that page with fromCache=false and leaves it in the
\* cache under key(U, l, o); a read of the same (U, l, o) repeated after it
\* returned, with no write in between and before the entry's 24 hours are
\* over, returns fromCache=true with the item list that was stored (the
\* cache client answering the commands of both calls).
C17_ReadRoundTrip ==
    /\ \A p \in Reads :
           FirstRead(calls[p]) =>
               /\ ReturnedStorePage(calls[p])
               /\ now < CACHE_TTL =>
                      /\ KeyOf(calls[p]) \in DOMAIN redis
                      /\ redis[KeyOf(calls[p])].value = JsonStringify(calls[p].outcome.messages)
    /\ \A q \in Reads : \A p \in calls[q].calledAfter :
           (FirstRead(calls[p]) /\ calls[q].pc = "done" /\ calls[q].redisErrors = {} /\ now < CACHE_TTL) =>
               /\ ServedFromCache(q)
               /\ calls[q].outcome.messages = Stored(calls[p].outcome.messages)
               /\ Len(calls[q].outcome.messages) = Len(PageOf(calls[p]))

C17_Witness ==
    \E q \in Reads : \E p \in calls[q].calledAfter :
        /\ FirstRead(calls[p]) /\ ReturnedStorePage(calls[p])
        /\ ServedFromCache(q)
        /\ calls[q].outcome.messages = Stored(calls[p].outcome.messages)
        /\ calls[q].outcome.messages # <<>>
        /\ DOMAIN redis = {KeyOf(calls[p])}

\* C18: every cache entry is created with a time to live of 86400 seconds
\* and a hit leaves the time to live of the entry it reads alone: at every
\* moment the remaining time to live of an entry is 86400 minus the seconds
\* since it was written, so that an entry that is only read expires 24
\* hours after it was written, and every hit is on an entry younger than that.
C18_FixedTtlNoSliding ==
    /\ \A k \in DOMAIN redis :
           /\ redis[k].ttl > 0
           /\ redis[k].ttl + (now - writtenAt[k]) = 86400
    /\ \A p \in Reads :
           ServedFromCache(p) => calls[p].hitAge < 86400

C18_Witness ==
    \E p \in Reads :
        /\ ServedFromCache(p)
        /\ calls[p].hitAge = TickSeconds
        /\ now = 86400
        /\ KeyOf(calls[p]) \notin DOMAIN redis
        /\ \E q \in calls[p].calledAfter : FirstRead(calls[q])

(***************************************************************************)
(* Claims about the invalidation and the validation of one dispatch        *)
(* (SpecDispatch).                                                         *)
(***************************************************************************)
\* the key begins with 'messages:{userId}:'
OwnedBy(userId, k) ==
    LET prefix == MessagesColon \o userId \o <<":">>
    IN Len(k) > Len(prefix) /\ SubSeq(k, 1, Len(prefix)) = prefix

\* C19: every dispatch that persists a record, sent or not, issues exactly
\* one pattern delete, which collects every key that begins with
\* 'messages:{userId}:' of the owning user, and once that delete has
\* succeeded no cache entry of the user is left, whatever its (limit, offset).
C19_WriteInvalidatesAllPages ==
    \A p \in Dispatches :
        LET c == calls[p]
        IN /\ c.deletes <= 1
           /\ (c.pc \in {"del", "done"} /\ RecordsOf(p) # {}) => c.deletes = 1
           /\ c.pc = "del" => c.keys = {k \in DOMAIN redis : OwnedBy(c.userId, k)}
           /\ (c.pc = "done" /\ c.outcome.ok /\ c.redisErrors = {}) =>
                  /\ \A k \in DOMAIN redis : ~OwnedBy(c.userId, k)
                  /\ \A w \in SeedWindows : cacheKey(c.userId, w[1], w[2]) \notin DOMAIN redis

C19_Witness ==
    \E p \in Dispatches :
        /\ calls[p].pc = "done" /\ calls[p].outcome.ok /\ calls[p].redisErrors = {}
        /\ calls[p].outcome.record # <<>> /\ ~calls[p].outcome.record[1].sent
        /\ calls[p].deletes = 1
        /\ calls[p].keys = {cacheKey(calls[p].userId, 1, 0), cacheKey(calls[p].userId, 10, 0)}
        /\ redis # <<>>
        /\ \A k \in DOMAIN redis : ~OwnedBy(calls[p].userId, k)

\* the request is one that the validation has to refuse
Malformed(dto) ==
    \/ dto.platform \notin SupportedPlatforms
    \/ dto.recipients = <<>>
    \/ Length(dto.content) < 1 \/ Length(dto.content) > 5000

\* no upload, no send, no store write and no cache operation has been
\* issued for the call
NoIO(p) ==
    /\ calls[p].axios = "none" /\ calls[p].fileUrl = "undefined" /\ calls[p].pc # "upload"
    /\ NothingDone(p)
    /\ calls[p].failedAt # "save"

\* C20: a send request with a malformed platform tag, an empty recipient
\* list or a content outside 1..5000 characters is rejected before any I/O:
\* no file upload, no strategy send, no store write and no cache operation
\* is performed for it.
C20_RejectedBeforeIO ==
    \A p \in DOMAIN calls :
        (calls[p].route = "http" /\ Malformed(calls[p].dto)) => NoIO(p)

(***************************************************************************)
(* Claims about the fan-out of one dispatch (SpecDispatch).                *)
(***************************************************************************)
\* the call took the branch of lines 76-86: several recipients, a strategy
\* without sendMassMessage
Fallback(c) == Resolved(c) /\ Len(c.dto.recipients) >= 2 /\ c.senderStrategy \notin massCapable

\* C21: in the fallback fan-out the orchestrator is a join, not a race:
\* every one of the N per-recipient sends is issued, and sendMessage has
\* neither gone on to save nor failed while one of them has not settled,
\* also when one of them fails or throws.
C21_FallbackIsJoin ==
    \A p \in Dispatches :
        LET c == calls[p]
        IN Fallback(c) =>
               /\ Len(c.invocations) = Len(c.dto.recipients)
               /\ c.pc # "await_send" => \A i \in 1..Len(c.invocations) : c.invocations[i].state # "pending"

(***************************************************************************)
(* The sender selector on its own (SpecSelector).                          *)
(***************************************************************************)
\* this.messageSenderFactory.getSender(platform), called on its own: the
\* caller gets the strategy or the exception, and no field of the factory or
\* of any other object is assigned
GetSenderCall(p, platform) ==
    /\ calls[p].pc = "idle"
    /\ InOrder(p)
    /\ LET resolved == getSender(platform)
       IN calls' = [calls EXCEPT ![p] = [@ EXCEPT !.kind = "select", !.pc = "done",
                                             !.dto = [NoDto EXCEPT !.platform = platform],
                                             !.senderStrategy = resolved.sender,
                                             !.outcome = [NoOutcome EXCEPT !.ok = resolved.ok, !.error = resolved.error]]]
    /\ UNCHANGED <<messageModel, redis, massCapable, strategyCall, redisCall, now, createdBy, snapshotOf, writtenAt, invalidatedUpTo, returnedUpTo>>

\* calls of getSender, one after the other, with every tag
InitSelector ==
    /\ messageModel = <<>>
    /\ createdBy = <<>>
    /\ redis = <<>>
    /\ snapshotOf = <<>>
    /\ writtenAt = <<>>
    /\ now = 0
    /\ massCapable = Senders
    /\ strategyCall = IdleStrategy
    /\ redisCall = IdleRedis
    /\ calls = [p \in 1..MaxCalls |-> Idle]
    /\ invalidatedUpTo = [u \in Users |-> 0]
    /\ returnedUpTo = [u \in Users |-> 0]

NextSelector == \E p \in 1..MaxCalls, platform \in SupportedPlatforms \cup UnsupportedTags : GetSenderCall(p, platform)

SpecSelector == InitSelector /\ [][NextSelector]_vars

Selections == {p \in DOMAIN calls : calls[p].kind = "select"}

\* C22: getSender is deterministic and free of side effects: a call with
\* one of the four tags returns a strategy, two calls with the same tag
\* return the same strategy instance, calls with distinct tags return
\* distinct strategies, and no call changes the store, the cache, the
\* wiring or the clock.
C22_GetSenderDeterministic ==
    /\ messageModel = <<>> /\ redis = <<>> /\ massCapable = Senders /\ now = 0
    /\ \A p \in Selections :
           calls[p].dto.platform \in SupportedPlatforms =>
               calls[p].outcome.ok /\ calls[p].senderStrategy \in Senders
    /\ \A p, q \in Selections :
           (p < q /\ calls[p].dto.platform \in SupportedPlatforms /\ calls[q].dto.platform \in SupportedPlatforms) =>
               (calls[p].dto.platform = calls[q].dto.platform) <=> (calls[p].senderStrategy = calls[q].senderStrategy)

C22_Witness ==
    \E p, q, r \in Selections :
        /\ p < q /\ q < r
        /\ calls[p].dto.platform = "discord" /\ calls[q].dto.platform = "slack" /\ calls[r].dto.platform = "discord"
        /\ calls[p].senderStrategy = "discordSender"
        /\ calls[q].senderStrategy = "slackSender"
        /\ calls[r].senderStrategy = "discordSender"

(***************************************************************************)
(* A sender strategy on its own (SpecStrategy).                            *)
(***************************************************************************)
\* senderStrategy.sendMessage({recipient, content, file})
StrategySendMessage(sender, version, token, recipient, file) ==
    /\ strategyCall.pc = "idle"
    /\ strategyCall' = [IdleStrategy EXCEPT !.pc = "await", !.sender = sender, !.version = version,
                                            !.method = "sendMessage", !.token = token,
                                            !.recipients = <<recipient>>, !.file = file,
                                            !.sends = <<Begin(sender, version, token, file, NewSend(recipient))>>]
    /\ UNCHANGED <<messageModel, redis, massCapable, redisCall, now, calls, createdBy, snapshotOf, writtenAt, invalidatedUpTo, returnedUpTo>>

\* senderStrategy.sendMassMessage({recipients, content, file}):
\* data.recipients.map((recipient) => this.sendMessage({...})) starts every send
StrategySendMassMessage(sender, version, token, recipients, file) ==
    /\ strategyCall.pc = "idle"
    /\ strategyCall' = [IdleStrategy EXCEPT !.pc = "await", !.sender = sender, !.version = version,
                                            !.method = "sendMassMessage", !.token = token,
                                            !.recipients = recipients, !.file = file,
                                            !.sends = [i \in 1..Len(recipients) |->
                                                           Begin(sender, version, token, file, NewSend(recipients[i]))]]
    /\ UNCHANGED <<messageModel, redis, massCapable, redisCall, now, calls, createdBy, snapshotOf, writtenAt, invalidatedUpTo, returnedUpTo>>

\* await this.simulateDelay(ms) is over: the timer has fired
DelayElapsed(i) ==
    /\ strategyCall.pc = "await"
    /\ i \in 1..Len(strategyCall.sends)
    /\ strategyCall.sends[i].pc = "delay"
    /\ strategyCall' = [strategyCall EXCEPT !.sends[i] = Fulfil(@, SimulatedDelivered(strategyCall.sender))]
    /\ UNCHANGED <<messageModel, redis, massCapable, redisCall, now, calls, createdBy, snapshotOf, writtenAt, invalidatedUpTo, returnedUpTo>>

\* the sendDocument request of sendFile has come back
FileAnswer(i, answer) ==
    /\ strategyCall.pc = "await"
    /\ i \in 1..Len(strategyCall.sends)
    /\ strategyCall.sends[i].pc = "sendDocument" /\ ~strategyCall.sends[i].silent
    /\ strategyCall' = [strategyCall EXCEPT !.sends[i] =
                            IF strategyCall.version = "current"
                            THEN AfterFile(@, SendFileReturns(answer))
                            ELSE AfterFileEarlier(@, SendFileReturns(answer))]
    /\ UNCHANGED <<messageModel, redis, massCapable, redisCall, now, calls, createdBy, snapshotOf, writtenAt, invalidatedUpTo, returnedUpTo>>

\* the sendMessage request of the Bot API has come back
TextAnswer(i, answer) ==
    /\ strategyCall.pc = "await"
    /\ i \in 1..Len(strategyCall.sends)
    /\ strategyCall.sends[i].pc = "sendMessage" /\ ~strategyCall.sends[i].silent
    /\ strategyCall' = [strategyCall EXCEPT !.sends[i] =
                            IF strategyCall.version = "current"
                            THEN TextAnswered(@, answer)
                            ELSE TextAnsweredEarlier(@, answer, strategyCall.file)]
    /\ UNCHANGED <<messageModel, redis, massCapable, redisCall, now, calls, createdBy, snapshotOf, writtenAt, invalidatedUpTo, returnedUpTo>>

\* the Bot API never answers the request: axios.post is called without a
\* timeout option (the default, 0, is no timeout), so its promise stays pending
NoAnswer(i) ==
    /\ strategyCall.pc = "await"
    /\ i \in 1..Len(strategyCall.sends)
    /\ strategyCall.sends[i].pc \in {"sendDocument", "sendMessage"} /\ ~strategyCall.sends[i].silent
    /\ strategyCall' = [strategyCall EXCEPT !.sends[i].silent = TRUE]
    /\ UNCHANGED <<messageModel, redis, massCapable, redisCall, now, calls, createdBy, snapshotOf, writtenAt, invalidatedUpTo, returnedUpTo>>

\* the method returns: sendMessage with what its body returned or threw,
\* sendMassMessage once await Promise.all(...) has resumed it
StrategyReturn ==
    /\ strategyCall.pc = "await"
    /\ PromiseAll(strategyCall.sends) # "pending"
    /\ strategyCall' =
           IF strategyCall.method = "sendMessage"
           THEN [strategyCall EXCEPT !.pc = "done", !.threw = strategyCall.sends[1].state = "rejected",
                                     !.result = strategyCall.sends[1].result]
           ELSE [strategyCall EXCEPT !.pc = "done",
                                     !.result = IF PromiseAll(strategyCall.sends) = "resolved"
                                                THEN MassResult(strategyCall.sender, strategyCall.sends)
                                                ELSE CatchMass(strategyCall.sender)]
    /\ UNCHANGED <<messageModel, redis, massCapable, redisCall, now, calls, createdBy, snapshotOf, writtenAt, invalidatedUpTo, returnedUpTo>>

\* one call of one method of one strategy, with and without the bot token,
\* with every recipient list and every kind of file argument
InitStrategy ==
    /\ messageModel = <<>>
    /\ createdBy = <<>>
    /\ redis = <<>>
    /\ snapshotOf = <<>>
    /\ writtenAt = <<>>
    /\ now = 0
    /\ massCapable = Senders
    /\ strategyCall = IdleStrategy
    /\ redisCall = IdleRedis
    /\ calls = [p \in {1} |-> Idle]
    /\ invalidatedUpTo = [u \in Users |-> 0]
    /\ returnedUpTo = [u \in Users |-> 0]

NextStrategy ==
    \/ \E sender \in Senders, token \in BOOLEAN, file \in StrategyFiles :
           \E version \in Versions(sender) :
               \/ \E recipient \in Recipients : StrategySendMessage(sender, version, token, recipient, file)
               \/ \E recipients \in Lists(MaxRecipients) : StrategySendMassMessage(sender, version, token, recipients, file)
    \/ \E i \in 1..MaxRecipients :
           \/ DelayElapsed(i)
           \/ \E answer \in ApiAnswers : FileAnswer(i, answer)
           \/ \E answer \in ApiAnswers : TextAnswer(i, answer)
           \/ NoAnswer(i)
    \/ StrategyReturn

SpecStrategy == InitStrategy /\ [][NextStrategy]_vars

\* the same, with every step that can be taken taken eventually: timers
\* fire, answers that arrive are handled, resolved promises resume their awaits
SpecStrategyLive == SpecStrategy /\ WF_vars(NextStrategy)

Sends == 1..Len(strategyCall.sends)

\* C23: sendMessage of each of the four strategies never throws: its
\* promise is never rejected, and what it returns is a SendResult whose
\* success is false with a message when the bot token is missing and when the
\* text request is rejected, answered with ok: false or fails.
C23_SendMessageNeverThrows ==
    /\ \A i \in Sends :
           LET send == strategyCall.sends[i]
           IN /\ send.state # "rejected"
              /\ send.pc = "done" =>
                     /\ send.result.success \in {<<TRUE>>, <<FALSE>>}
                     /\ (strategyCall.sender = "telegramSender" /\ ~strategyCall.token) =>
                            /\ send.result.success = <<FALSE>>
                            /\ send.result.message = <<"Token no configurado">>
                     /\ send.textCall \in ApiAnswers \ {"ok200"} =>
                            /\ send.result.success = <<FALSE>>
                            /\ send.result.message # <<>>
    /\ (strategyCall.pc = "done" /\ strategyCall.method = "sendMessage") =>
           /\ ~strategyCall.threw
           /\ strategyCall.result = strategyCall.sends[1].result

C23_Witness ==
    /\ strategyCall.pc = "done" /\ strategyCall.method = "sendMessage"
    /\ strategyCall.sender = "telegramSender" /\ strategyCall.token
    /\ strategyCall.sends[1].textCall = "network"
    /\ strategyCall.result.success = <<FALSE>>
    /\ strategyCall.result.message = <<"Network Error">>

\* the message begins with the number k
Reports(message, k) ==
    LET digits == NumberToString(k)
    IN /\ Len(message) > Len(digits)
       /\ SubSeq(message, 1, Len(digits)) = digits
       /\ message[Len(digits) + 1] \in {"/", " exitosos, "}

\* C24: sendMassMessage of each strategy starts one sendMessage per
\* recipient, returns only once every one of them has settled, returns
\* success = true exactly when every per-recipient result has success =
\* true, and its message begins with the number of recipients that succeeded.
C24_MassIsConjunction ==
    (strategyCall.method = "sendMassMessage" /\ strategyCall.pc = "done") =>
        /\ ~strategyCall.threw
        /\ Len(strategyCall.sends) = Len(strategyCall.recipients)
        /\ \A i \in Sends : strategyCall.sends[i].state = "resolved"
        /\ strategyCall.result.success = <<\A i \in Sends : strategyCall.sends[i].result.success = <<TRUE>>>>
        /\ Reports(strategyCall.result.message,
                   Cardinality({i \in Sends : strategyCall.sends[i].result.success = <<TRUE>>}))

C24_Witness ==
    /\ strategyCall.method = "sendMassMessage" /\ strategyCall.pc = "done"
    /\ strategyCall.sender = "telegramSender"
    /\ Len(strategyCall.sends) = 2
    /\ strategyCall.sends[1].result.success = <<TRUE>>
    /\ strategyCall.sends[2].result.success = <<FALSE>>
    /\ strategyCall.result.success = <<FALSE>>
    /\ strategyCall.result.message = <<"1", " exitosos, ", "1", " fallidos">>

\* C25 as stated: in the Telegram strategy the file is sent by a call made
\* only after the text message is confirmed delivered, and whenever the text
\* call succeeded sendMessage returns success = true.
C25_Original ==
    strategyCall.sender = "telegramSender" =>
        \A i \in Sends :
            LET send == strategyCall.sends[i]
            IN /\ (send.pc = "sendDocument" \/ send.fileCall # "none") => send.textCall = "ok200"
               /\ (send.pc = "done" /\ send.textCall = "ok200") => send.result.success = <<TRUE>>

\* C25 as amended: in the Telegram strategy the file is sent by a call of
\* its own (sendDocument): by the current sender before the text, carrying
\* the text as its caption, so that a file that was sent ends the send with
\* success = true and no text request, and a file that could not be sent is
\* followed by the text alone, whose outcome is the result; by the earlier
\* sender after the text is confirmed delivered, with its outcome dropped.
\* In both a failure of the file call never makes the result false:
\* whenever the text call succeeded, sendMessage returns success = true.
C25_FileFailureKeepsText ==
    strategyCall.sender = "telegramSender" =>
        \A i \in Sends :
            LET send == strategyCall.sends[i]
            IN /\ (send.pc = "done" /\ send.textCall = "ok200") => send.result.success = <<TRUE>>
               /\ (strategyCall.version = "current" /\ send.pc = "sendDocument") => send.textCall = "none"
               /\ (strategyCall.version = "current" /\ send.fileCall = "sent") =>
                      /\ send.pc = "done" /\ send.result.success = <<TRUE>>
                      /\ send.textCall = "none"
               /\ (strategyCall.version = "current" /\ send.fileCall = "failed" /\ send.pc = "done") =>
                      /\ send.textCall # "none"
                      /\ send.result.success = <<TRUE>> <=> send.textCall = "ok200"
               /\ (strategyCall.version = "earlier" /\ (send.pc = "sendDocument" \/ send.fileCall # "none")) =>
                      send.textCall = "ok200"

C25_Witness ==
    /\ strategyCall.sender = "telegramSender" /\ strategyCall.version = "current"
    /\ strategyCall.pc = "done" /\ strategyCall.method = "sendMessage"
    /\ strategyCall.file = SecureUrl
    /\ strategyCall.sends[1].fileCall = "failed"
    /\ strategyCall.sends[1].textCall = "ok200"
    /\ strategyCall.result.success = <<TRUE>>

\* C26: no call of a strategy hangs on its platform request: a call one of
\* whose requests is never answered still returns.
C26_SilentCallIsCutOff ==
    (\E i \in Sends : strategyCall.sends[i].silent) ~> (strategyCall.pc = "done")

(***************************************************************************)
(* Claims about the records of the store (SpecDispatch).                   *)
(***************************************************************************)
\* C27: in every reachable state every persisted message record has a
\* recipient list that is not empty and a platform tag among telegram,
\* slack, discord, whatsapp, and the record of a dispatch holds the
\* recipients of its request, in the order of the request, and its tag.
C27_RecordsWellFormed ==
    \A i \in 1..Len(messageModel) :
        /\ messageModel[i].recipients # <<>>
        /\ messageModel[i].platform \in {"telegram", "slack", "discord", "whatsapp"}
        /\ createdBy[i] # 0 =>
               /\ messageModel[i].recipients = calls[createdBy[i]].dto.recipients
               /\ messageModel[i].platform = calls[createdBy[i]].dto.platform

C27_Witness ==
    \E i \in 1..Len(messageModel) :
        /\ createdBy[i] # 0
        /\ calls[createdBy[i]].pc = "done" /\ calls[createdBy[i]].outcome.ok
        /\ messageModel[i].recipients = <<"r2", "r1">>
        /\ messageModel[i].platform = "whatsapp"
        /\ Len(messageModel) = 3

(***************************************************************************)
(* The query of a page (SpecPage).                                         *)
(***************************************************************************)
\* a store in which a user owns several documents, saved around a
\* document of the other user
PagedDocs ==
    <<NewDocument(1, <<"a">>, [platform |-> "telegram", recipients |-> <<"r1">>, content |-> "hi"], Undefined, TRUE),
      NewDocument(2, <<"a", "b">>, [platform |-> "slack", recipients |-> <<"r2", "r1">>, content |-> "hi"], SecureUrl, FALSE),
      NewDocument(3, <<"a">>, [platform |-> "discord", recipients |-> <<"r2">>, content |-> "hi"], Undefined, FALSE),
      NewDocument(4, <<"a">>, [platform |-> "whatsapp", recipients |-> <<"r1", "r2">>, content |-> "hi"], SecureUrl, TRUE)>>

\* calls of getUserMessages made one after the other for every user and
\* window, on that store and a cache that starts empty
InitPage ==
    /\ messageModel = PagedDocs
    /\ createdBy = [i \in 1..Len(PagedDocs) |-> 0]
    /\ redis = <<>>
    /\ snapshotOf = <<>>
    /\ writtenAt = <<>>
    /\ now = 0
    /\ massCapable = Senders
    /\ strategyCall = IdleStrategy
    /\ redisCall = IdleRedis
    /\ calls = [p \in 1..MaxReads |-> Idle]
    /\ invalidatedUpTo = [u \in Users |-> 0]
    /\ returnedUpTo = [u \in Users |-> 0]

\* await this.redisService.get(cacheKey) rejects: the RedisService of the
\* repository never does (it returns null), a double of it, as the unit
\* tests inject, can
RedisServiceGetRejects(p) ==
    /\ calls[p].pc = "redis_get"
    /\ calls' = [calls EXCEPT ![p] =
                    CatchRead([@ EXCEPT !.cachedAtGet = Held(cacheKey(calls[p].userId, calls[p].limit, calls[p].offset))],
                              CollaboratorError, "redis_get")]
    /\ UNCHANGED <<messageModel, redis, massCapable, strategyCall, redisCall, now, createdBy, snapshotOf, writtenAt, invalidatedUpTo, returnedUpTo>>

NextPage ==
    \E p \in 1..MaxReads :
        \/ Quiet /\ \E u \in Users, w \in Windows : GetUserMessagesCall(p, u, w[1], w[2])
        \/ RedisGet(p)
        \/ RedisServiceGetRejects(p)
        \/ Find(p)
        \/ RedisSet(p)

SpecPage == InitPage /\ [][NextPage]_vars

\* the positions of the documents of the call's user
Owned(c) == {i \in 1..Len(messageModel) : messageModel[i].senderId = <<"ObjectId", c.userId>>}

\* the documents of the call's user created after doc
Newer(c, doc) == {i \in Owned(c) : messageModel[i].createdAt[2] > doc.createdAt[2]}

\* the number of documents a window leaves of n documents
WindowSize(n, limit, offset) ==
    IF n <= offset THEN 0 ELSE IF n - offset <= limit THEN n - offset ELSE limit

\* C28: a getUserMessages(U, limit, offset) that does not hit the cache
\* returns, with fromCache=false, exactly the records owned by U, newest
\* first by creation time, without the first offset of them and at most
\* limit of them, and when that list is not empty (and the cache accepts
\* the write) it is stored under key(U, limit, offset) with a time to live
\* of 86400 seconds.
C28_MissReturnsPage ==
    \A p \in Reads :
        LET c == calls[p]
            messages == c.outcome.messages
        IN (c.pc = "done" /\ c.outcome.ok /\ ~c.outcome.fromCache) =>
               /\ Len(messages) = WindowSize(Cardinality(Owned(c)), c.limit, c.offset)
               /\ \A j \in 1..Len(messages) :
                      /\ \E i \in Owned(c) : messages[j] = messageModel[i]
                      /\ Cardinality(Newer(c, messages[j])) = c.offset + j - 1
               /\ (messages # <<>> /\ "set" \notin c.redisErrors) =>
                      /\ KeyOf(c) \in DOMAIN redis
                      /\ redis[KeyOf(c)] = [value |-> JsonStringify(messages), ttl |-> 86400]

C28_Witness ==
    \E p \in Reads :
        /\ calls[p].pc = "done" /\ calls[p].outcome.ok /\ ~calls[p].outcome.fromCache
        /\ calls[p].cachedAtGet = "absent" /\ calls[p].redisErrors = {}
        /\ TripleOf(calls[p]) = <<<<"a">>, 1, 1>>
        /\ calls[p].outcome.messages = <<messageModel[3]>>
        /\ redis[cacheKey(<<"a">>, 1, 1)].ttl = 86400

(***************************************************************************)
(* Claims about a cache hit (SpecRead) and a failed save (SpecDispatch).   *)
(***************************************************************************)
\* the step of call p that reads a page under its key
HitStep(p) ==
    /\ calls[p].pc = "redis_get" /\ calls'[p].pc # "redis_get"
    /\ Held(KeyOf(calls[p])) = "page"
    /\ "get" \notin calls'[p].redisErrors

\* C29: on a cache hit getUserMessages returns the cached items with
\* fromCache=true in the very step that read them: the persistent store is
\* not queried and nothing is written to the cache.
C29_HitIsReadOnly ==
    [][\A p \in DOMAIN calls :
           HitStep(p) =>
               /\ calls'[p].pc = "done"
               /\ calls'[p].outcome.ok /\ calls'[p].outcome.fromCache
               /\ calls'[p].outcome.messages = JsonParse(redis[KeyOf(calls[p])].value).value
               /\ calls'[p].messages = <<>>
               /\ redis' = redis /\ writtenAt' = writtenAt
               /\ messageModel' = messageModel]_vars

C29_Witness ==
    \E p \in Reads :
        /\ ServedFromCache(p)
        /\ calls[p].cachedAtGet = "page" /\ calls[p].redisErrors = {}
        /\ calls[p].outcome.messages = Stored(FindPage(SeedDocs, calls[p].userId, calls[p].limit, calls[p].offset))
        /\ calls[p].outcome.messages # <<>>
        /\ redis = SeedRedis

\* C30: when the save of the record fails, by the validators of the schema
\* or by the store, the dispatch fails with the generic processing error,
\* no record exists for it, and the cache is as it was: no KEYS and no DEL
\* has been issued, the invalidation coming only after a save that succeeded.
C30_FailedSaveLeavesCache ==
    \A p \in Dispatches :
        LET c == calls[p]
        IN c.failedAt = "save" =>
               /\ c.pc = "done" /\ ~c.outcome.ok
               /\ c.outcome.error = [name |-> "InternalServerErrorException",
                                     message |-> <<"Error al procesar el envío del mensaje">>]
               /\ c.outcome.record = <<>> /\ RecordsOf(p) = {}
               /\ c.deletes = 0 /\ c.keys = {} /\ c.redisErrors = {}
               /\ redis = IF messageModel = <<>> THEN <<>> ELSE SeedRedis

C30_Witness ==
    \E p \in Dispatches :
        /\ calls[p].failedAt = "save" /\ calls[p].pc = "done"
        /\ calls[p].caught = SchemaError
        /\ calls[p].invocations # <<>> /\ calls[p].invocations[1].result.success = <<TRUE>>
        /\ messageModel = SeedDocs /\ redis = SeedRedis

(***************************************************************************)
(* Claims about a read whose collaborator rejects (SpecPage).              *)
(***************************************************************************)
\* the step in which the await of redisService.get or of the store query
\* of call p throws
RejectStep(p) ==
    /\ calls[p].pc \in {"redis_get", "find"}
    /\ calls'[p].failedAt \in {"redis_get", "find"}

C32_FileUploadedOnce ==
    \A p \in Dispatches :
        LET c == calls[p]
        IN /\ c.uploads <= 1
           /\ (c.file.present /\ c.pc # "upload" /\ c.failedAt # "upload") =>
                  /\ c.uploads = 1 /\ c.axios = "secure_url"
                  /\ c.fileUrl = "https://res.cloudinary.com/moob/f.pdf"
                  /\ \A i \in 1..Len(c.invocations) : c.invocations[i].data.file = c.fileUrl
                  /\ \A i \in RecordsOf(p) : messageModel[i].fileUrl = c.fileUrl
           /\ ~c.file.present =>
                  /\ c.uploads = 0 /\ c.axios = "none" /\ c.pc # "upload"
                  /\ \A i \in 1..Len(c.invocations) : c.invocations[i].data.file = "undefined"
                  /\ \A i \in RecordsOf(p) : messageModel[i].fileUrl = "null"

C32_Witness ==
    \E p \in Dispatches :
        /\ calls[p].pc = "done" /\ calls[p].outcome.ok
        /\ calls[p].file.present /\ calls[p].uploads = 1
        /\ Len(calls[p].invocations) = 2
        /\ calls[p].invocations[1].data.file = SecureUrl /\ calls[p].invocations[2].data.file = SecureUrl
        /\ calls[p].outcome.record[1].fileUrl = SecureUrl
        /\ \E i \in RecordsOf(p) : messageModel[i].fileUrl = SecureUrl

ClientAnswers == {"answers", "rejects"}

\* no operation of the service is under way
RedisServiceFree == redisCall.pc \in {"idle", "done"}

\* async get(key)
RedisServiceGet(key, answer) ==
    /\ RedisServiceFree
    /\ redisCall' =
           LET call == [IdleRedis EXCEPT !.op = "get"]
           IN IF answer = "rejects" THEN RedisCatch(call, "get", JsNull)
              ELSE RedisReturn(call, "get", IF key \in DOMAIN redis THEN JsString(redis[key].value) ELSE JsNull)
    /\ UNCHANGED redis
    /\ UNCHANGED <<messageModel, massCapable, strategyCall, now, calls, createdBy, snapshotOf, writtenAt, invalidatedUpTo, returnedUpTo>>

\* async set(key, value, ttlSeconds?)
RedisServiceSet(key, value, ttlSeconds, answer) ==
    /\ RedisServiceFree
    /\ LET call == [IdleRedis EXCEPT !.op = "set"]
       IN \/ /\ answer = "answers"
             /\ redis' = [k \in DOMAIN redis \cup {key} |-> IF k = key THEN SetEntry(value, ttlSeconds) ELSE redis[k]]
             /\ redisCall' = RedisReturn(call, SetCommand(ttlSeconds), JsBoolean(TRUE))
          \/ /\ answer = "rejects"
             /\ UNCHANGED redis
             /\ redisCall' = RedisCatch(call, SetCommand(ttlSeconds), JsBoolean(FALSE))
    /\ UNCHANGED <<messageModel, massCapable, strategyCall, now, calls, createdBy, snapshotOf, writtenAt, invalidatedUpTo, returnedUpTo>>

\* async del(...keys)
RedisServiceDel(keys, answer) ==
    /\ RedisServiceFree
    /\ LET call == [IdleRedis EXCEPT !.op = "del"]
           result == Cardinality(DOMAIN redis \ DOMAIN Without(redis, keys))
       IN \/ /\ answer = "answers"
             /\ redis' = Without(redis, keys)
             /\ redisCall' = RedisReturn([call EXCEPT !.deleted = result], "del", JsNumber(result))
          \/ /\ answer = "rejects"
             /\ UNCHANGED redis
             /\ redisCall' = RedisCatch(call, "del", JsNumber(0))
    /\ UNCHANGED <<messageModel, massCapable, strategyCall, now, calls, createdBy, snapshotOf, writtenAt, invalidatedUpTo, returnedUpTo>>

\* async exists(key): result === 1
RedisServiceExists(key, answer) ==
    /\ RedisServiceFree
    /\ redisCall' =
           LET call == [IdleRedis EXCEPT !.op = "exists"]
               result == IF key \in DOMAIN redis THEN 1 ELSE 0
           IN IF answer = "rejects" THEN RedisCatch(call, "exists", JsBoolean(FALSE))
              ELSE RedisReturn(call, "exists", JsBoolean(result = 1))
    /\ UNCHANGED redis
    /\ UNCHANGED <<messageModel, massCapable, strategyCall, now, calls, createdBy, snapshotOf, writtenAt, invalidatedUpTo, returnedUpTo>>

\* async ttl(key)
RedisServiceTtl(key, answer) ==
    /\ RedisServiceFree
    /\ redisCall' =
           LET call == [IdleRedis EXCEPT !.op = "ttl"]
           IN IF answer = "rejects" THEN RedisCatch(call, "ttl", JsNumber(-2))
              ELSE RedisReturn(call, "ttl", JsNumber(StoreTtl(redis, key)))
    /\ UNCHANGED redis
    /\ UNCHANGED <<messageModel, massCapable, strategyCall, now, calls, createdBy, snapshotOf, writtenAt, invalidatedUpTo, returnedUpTo>>

\* async deleteByPattern(pattern), to the end of
\* const keys = await this.client.keys(pattern); if (keys.length === 0) return 0
DeleteByPatternKeys(pat, answer) ==
    /\ RedisServiceFree
    /\ redisCall' =
           LET call == [IdleRedis EXCEPT !.op = "deleteByPattern"]
               keys == {k \in DOMAIN redis : GlobMatch(pat, k)}
           IN IF answer = "rejects" THEN RedisCatch(call, "keys", JsNumber(0))
              ELSE IF keys = {} THEN RedisReturn(call, "keys", JsNumber(0))
              ELSE [call EXCEPT !.pc = "del", !.found = keys, !.issued = Append(@, "keys")]
    /\ UNCHANGED redis
    /\ UNCHANGED <<messageModel, massCapable, strategyCall, now, calls, createdBy, snapshotOf, writtenAt, invalidatedUpTo, returnedUpTo>>

\* const result = await this.client.del(...keys); return result
DeleteByPatternDel(answer) ==
    /\ redisCall.pc = "del"
    /\ LET result == Cardinality(DOMAIN redis \ DOMAIN Without(redis, redisCall.found))
       IN \/ /\ answer = "answers"
             /\ redis' = Without(redis, redisCall.found)
             /\ redisCall' = RedisReturn([redisCall EXCEPT !.deleted = result], "del", JsNumber(result))
          \/ /\ answer = "rejects"
             /\ UNCHANGED redis
             /\ redisCall' = RedisCatch(redisCall, "del", JsNumber(0))
    /\ UNCHANGED <<messageModel, massCapable, strategyCall, now, calls, createdBy, snapshotOf, writtenAt, invalidatedUpTo, returnedUpTo>>

\* the time to live of an entry runs out
Expired(key) ==
    /\ key \in DOMAIN redis
    /\ redis[key].ttl > 0
    /\ redis' = Without(redis, {key})
    /\ UNCHANGED <<messageModel, massCapable, strategyCall, redisCall, now, calls, createdBy, snapshotOf, writtenAt, invalidatedUpTo, returnedUpTo>>

\* the keys the operations are called with: two that the seeded cache holds
\* under different users and one that it does not hold
RedisKeys == {cacheKey(<<"a">>, 1, 0), cacheKey(<<"a", "b">>, 1, 0), cacheKey(<<"a">>, 1, 1)}

\* setex / set arguments: with the time to live of the service and without one
TtlArguments == {CACHE_TTL, 0}

\* one operation of RedisService after another on the seeded cache, each
\* command of the client answered or rejected
InitRedis ==
    /\ messageModel = SeedDocs
    /\ createdBy = [i \in 1..Len(SeedDocs) |-> 0]
    /\ redis = SeedRedis
    /\ snapshotOf = [k \in DOMAIN SeedRedis |-> Len(SeedDocs)]
    /\ writtenAt = [k \in DOMAIN SeedRedis |-> 0]
    /\ now = 0
    /\ massCapable = Senders
    /\ strategyCall = IdleStrategy
    /\ redisCall = IdleRedis
    /\ calls = [p \in {1} |-> Idle]
    /\ invalidatedUpTo = [u \in Users |-> 0]
    /\ returnedUpTo = [u \in Users |-> 0]

NextRedis ==
    \/ \E answer \in ClientAnswers :
           \/ \E key \in RedisKeys :
                  \/ RedisServiceGet(key, answer)
                  \/ \E ttlSeconds \in TtlArguments : RedisServiceSet(key, Corrupt, ttlSeconds, answer)
                  \/ RedisServiceExists(key, answer)
                  \/ RedisServiceTtl(key, answer)
           \/ \E keys \in (SUBSET RedisKeys) \ {{}} : RedisServiceDel(keys, answer)
           \/ \E u \in Users : DeleteByPatternKeys(pattern(u), answer)
           \/ DeleteByPatternDel(answer)
    \/ \E key \in DOMAIN redis : Expired(key)

SpecRedis == InitRedis /\ [][NextRedis]_vars

\* C34: no operation of RedisService lets an error of the client through:
\* when the client rejects, get returns null, set false, del and
\* deleteByPattern 0, exists false and ttl -2; deleteByPattern returns 0
\* after the keys command alone when no key matches, and otherwise the
\* number of keys its del command removed.
C34_RedisErrorsSwallowed ==
    redisCall.pc = "done" =>
        /\ ~redisCall.threw
        /\ redisCall.rejected =>
               redisCall.returned = CASE redisCall.op = "get" -> <<"null">>
                                      [] redisCall.op = "set" -> <<"boolean", FALSE>>
                                      [] redisCall.op \in {"del", "deleteByPattern"} -> <<"number", 0>>
                                      [] redisCall.op = "exists" -> <<"boolean", FALSE>>
                                      [] redisCall.op = "ttl" -> <<"number", -2>>
        /\ (redisCall.op = "deleteByPattern" /\ ~redisCall.rejected) =>
               IF redisCall.found = {}
               THEN redisCall.returned = <<"number", 0>> /\ redisCall.issued = <<"keys">>
               ELSE redisCall.returned = <<"number", redisCall.deleted>> /\ redisCall.issued = <<"keys", "del">>

C34_Witness ==
    /\ redisCall.pc = "done" /\ redisCall.op = "deleteByPattern"
    /\ redisCall.rejected /\ redisCall.issued = <<"keys", "del">>
    /\ Cardinality(redisCall.found) = 2 /\ redisCall.found \subseteq DOMAIN redis
    /\ redisCall.returned = <<"number", 0>>

(***************************************************************************)
(* Claims about the cache entries of other users (SpecDispatch).           *)
(***************************************************************************)
\* the keys under which the pages of a user are cached
KeysOf(userId) == {cacheKey(userId, w[1], w[2]) : w \in Windows \cup SeedWindows}

\* C35: a dispatch of user U leaves every cache entry of every other user
\* as it is, value and remaining time to live: no step of the dispatch
\* removes or changes an entry under a key that is not one of U's.
C35_OtherUsersEntriesKept ==
    [][\A p \in DOMAIN calls :
           calls'[p].kind = "send" =>
               \A k \in DOMAIN redis \ KeysOf(calls'[p].userId) :
                   k \in DOMAIN redis' /\ redis'[k] = redis[k]]_vars

C35_Witness ==
    \E p \in Dispatches :
        /\ calls[p].pc = "done" /\ calls[p].outcome.ok /\ calls[p].userId = <<"a">>
        /\ calls[p].redisErrors = {} /\ calls[p].deletes = 1
        /\ DOMAIN redis = KeysOf(<<"a", "b">>) \cap DOMAIN SeedRedis
        /\ DOMAIN redis # {}
        /\ \A k \in DOMAIN redis : redis[k] = SeedRedis[k] /\ redis[k].ttl = CACHE_TTL

(***************************************************************************)
(* Claims about concurrent calls of both operations (Spec).                *)
(***************************************************************************)
\* C36: a getUserMessages(U, limit, offset) that returns a page, from the
\* store or from the cache, returns records of U only, whatever reads and
\* dispatches of whatever users ran before it or run beside it.
C36_PageOfOwnerOnly ==
    \A p \in Reads :
        (calls[p].pc = "done" /\ calls[p].outcome.ok) =>
            \A i \in 1..Len(calls[p].outcome.messages) :
                calls[p].outcome.messages[i].senderId[2] = calls[p].userId

C36_Witness ==
    \E p, q \in Reads :
        /\ calls[p].pc = "done" /\ calls[p].outcome.ok /\ calls[p].outcome.fromCache
        /\ calls[q].pc = "done" /\ calls[q].outcome.ok /\ ~calls[q].outcome.fromCache
        /\ calls[p].userId # calls[q].userId
        /\ calls[p].limit = calls[q].limit /\ calls[p].offset = calls[q].offset
        /\ calls[p].outcome.messages # <<>> /\ calls[q].outcome.messages # <<>>
        /\ calls[p].outcome.messages[1].senderId[2] = calls[p].userId
        /\ calls[q].outcome.messages[1].senderId[2] = calls[q].userId

(***************************************************************************)
(* Concurrent dispatches (SpecConcurrent).                                 *)
(***************************************************************************)
\* requests that differ in platform, recipients and content
DispatchDtos ==
    {[platform |-> "telegram", recipients |-> <<"r1">>, content |-> "hi"],
     [platform |-> "slack", recipients |-> <<"r2", "r1">>, content |-> "ho"]}

\* MaxDispatches calls of sendMessage, of the same or of different users,
\* interleaved at their awaits, production wiring, on the seeded store and cache
InitConcurrent ==
    /\ messageModel = SeedDocs
    /\ createdBy = [i \in 1..Len(SeedDocs) |-> 0]
    /\ redis = SeedRedis
    /\ snapshotOf = [k \in DOMAIN SeedRedis |-> Len(SeedDocs)]
    /\ writtenAt = [k \in DOMAIN SeedRedis |-> 0]
    /\ now = 0
    /\ massCapable = Senders
    /\ strategyCall = IdleStrategy
    /\ redisCall = IdleRedis
    /\ calls = [p \in 1..MaxDispatches |-> Idle]
    /\ invalidatedUpTo = [u \in Users |-> 0]
    /\ returnedUpTo = [u \in Users |-> 0]

NextConcurrent ==
    \E p \in 1..MaxDispatches :
        \/ \E u \in Users, dto \in DispatchDtos : SendMessageCall(p, u, dto, NoFile)
        \/ Resolve(p)
        \/ \E r \in {[success |-> <<TRUE>>], [success |-> <<FALSE>>]} : Settle(p, 1, r)
        \/ Resume(p)
        \/ Save(p)
        \/ Keys(p)
        \/ Del(p)

SpecConcurrent == InitConcurrent /\ [][NextConcurrent]_vars

\* the save of the dispatch has committed: the call holds savedMessage
Committed(p) == calls[p].kind = "send" /\ calls[p].outcome.record # <<>>

\* the positions of the records that dispatches of the user saved
SavedFor(userId) ==
    {i \in 1..Len(messageModel) : createdBy[i] # 0 /\ messageModel[i].senderId = <<"ObjectId", userId>>}

\* C37: concurrent dispatches neither lose nor merge records: in every
\* state of every interleaving the store holds, for each user, as many
\* records of dispatches as dispatches of that user have committed their
\* save, and each committed dispatch has one record of its own, with the
\* user, recipients, platform and content of its request and the outcome
\* of its own send; the records that were there before are untouched.
C37_NoLostOrMergedRecord ==
    /\ \A u \in Users :
           Cardinality(SavedFor(u)) = Cardinality({p \in Dispatches : calls[p].userId = u /\ Committed(p)})
    /\ \A p \in Dispatches :
           Committed(p) =>
               /\ Cardinality({i \in 1..Len(messageModel) : messageModel[i]._id = calls[p].outcome.record[1]._id}) = 1
               /\ \E i \in 1..Len(messageModel) :
                      /\ messageModel[i] = calls[p].outcome.record[1]
                      /\ messageModel[i].senderId = <<"ObjectId", calls[p].userId>>
                      /\ messageModel[i].recipients = calls[p].dto.recipients
                      /\ messageModel[i].platform = calls[p].dto.platform
                      /\ messageModel[i].content = calls[p].dto.content
                      /\ messageModel[i].sent = (calls[p].invocations[1].result.success = <<TRUE>>)
    /\ \A i \in 1..Len(messageModel) : createdBy[i] = 0 => messageModel[i] = SeedDocs[i]

C37_Witness ==
    \E p, q \in Dispatches :
        /\ p # q /\ calls[p].pc = "done" /\ calls[q].pc = "done"
        /\ calls[p].outcome.ok /\ calls[q].outcome.ok
        /\ calls[p].userId = calls[q].userId
        /\ calls[p].dto # calls[q].dto
        /\ calls[p].outcome.record[1].sent /\ ~calls[q].outcome.record[1].sent
        /\ p < q /\ calls[q].outcome.record[1]._id[2] < calls[p].outcome.record[1]._id[2]
        /\ Cardinality(SavedFor(calls[p].userId)) = 2

(***************************************************************************)
(* Claims about what a finished dispatch leaves behind (SpecDispatch).     *)
(***************************************************************************)
\* C38: a finished dispatch of which a strategy send has completed,
\* successfully or not, has a record in the store.  Stated for the
\* requests that were posted to the controller and passed its validation,
\* in dispatches in which no collaborator rejected a call.
C38_DeliveredHasRecord ==
    \A p \in Dispatches :
        (calls[p].pc = "done" /\ calls[p].route = "http" /\ calls[p].caught # CollaboratorError
             /\ \E i \in 1..Len(calls[p].invocations) : calls[p].invocations[i].state = "resolved") =>
            RecordsOf(p) # {}

(***************************************************************************)
(* getUserMessageStats(userId) beside dispatches (SpecStats).              *)
(***************************************************************************)
\* new InternalServerErrorException('Error al obtener estadísticas')
StatsError == [name |-> "InternalServerErrorException", message |-> <<"Error al obtener estadísticas">>]

\* countDocuments({senderId: userId}): the filter is cast to the schema, the
\* string becomes the ObjectId
CountDocuments(docs, userId) ==
    Cardinality({i \in 1..Len(docs) : docs[i].senderId = <<"ObjectId", userId>>})

\* countDocuments({senderId: userId, sent: <sent>})
CountDocumentsSent(docs, userId, sent) ==
    Cardinality({i \in 1..Len(docs) : docs[i].senderId = <<"ObjectId", userId>> /\ docs[i].sent = sent})

\* aggregate([{$match: {senderId: userId}}, {$group: {_id: '$platform', count: {$sum: 1}}}]):
\* the stages of a pipeline are not cast to the schema, so $match compares
\* the stored ObjectId with the string
Aggregate(docs, userId) ==
    LET matched == {i \in 1..Len(docs) : docs[i].senderId = <<"string", userId>>}
    IN {[_id |-> pl, count |-> Cardinality({i \in matched : docs[i].platform = pl})] :
            pl \in {docs[i].platform : i \in matched}}

\* the catch block of getUserMessageStats
CatchStats(c, at) ==
    [c EXCEPT !.pc = "done", !.caught = CollaboratorError, !.failedAt = at,
              !.outcome = [NoOutcome EXCEPT !.error = StatsError]]

GetUserMessageStatsCall(p, userId) ==
    /\ calls[p].pc = "idle"
    /\ InOrder(p)
    /\ calls' = [calls EXCEPT ![p] = [@ EXCEPT !.kind = "stats", !.pc = "count_total", !.userId = userId]]
    /\ UNCHANGED <<messageModel, redis, massCapable, strategyCall, redisCall, now, createdBy, snapshotOf, writtenAt, invalidatedUpTo, returnedUpTo>>

\* const total = await this.messageModel.countDocuments({senderId: userId})
CountTotal(p) ==
    /\ calls[p].pc = "count_total"
    /\ \/ calls' = [calls EXCEPT ![p] = [@ EXCEPT !.pc = "count_sent",
                        !.stats = [@ EXCEPT !.total = CountDocuments(messageModel, calls[p].userId)]]]
       \/ calls' = [calls EXCEPT ![p] = CatchStats(@, "count_total")]
    /\ UNCHANGED <<messageModel, redis, massCapable, strategyCall, redisCall, now, createdBy, snapshotOf, writtenAt, invalidatedUpTo, returnedUpTo>>

\* const sent = await this.messageModel.countDocuments({senderId: userId, sent: true})
CountSent(p) ==
    /\ calls[p].pc = "count_sent"
    /\ \/ calls' = [calls EXCEPT ![p] = [@ EXCEPT !.pc = "count_failed",
                        !.stats = [@ EXCEPT !.sent = CountDocumentsSent(messageModel, calls[p].userId, TRUE)]]]
       \/ calls' = [calls EXCEPT ![p] = CatchStats(@, "count_sent")]
    /\ UNCHANGED <<messageModel, redis, massCapable, strategyCall, redisCall, now, createdBy, snapshotOf, writtenAt, invalidatedUpTo, returnedUpTo>>

\* const failed = await this.messageModel.countDocuments({senderId: userId, sent: false})
CountFailed(p) ==
    /\ calls[p].pc = "count_failed"
    /\ \/ calls' = [calls EXCEPT ![p] = [@ EXCEPT !.pc = "aggregate",
                        !.stats = [@ EXCEPT !.failed = CountDocumentsSent(messageModel, calls[p].userId, FALSE)]]]
       \/ calls' = [calls EXCEPT ![p] = CatchStats(@, "count_failed")]
    /\ UNCHANGED <<messageModel, redis, massCapable, strategyCall, redisCall, now, createdBy, snapshotOf, writtenAt, invalidatedUpTo, returnedUpTo>>

\* const byPlatform = await this.messageModel.aggregate([...]); return {total, sent, failed, byPlatform}
AggregateByPlatform(p) ==
    /\ calls[p].pc = "aggregate"
    /\ \/ calls' = [calls EXCEPT ![p] = [@ EXCEPT !.pc = "done",
                        !.stats = [@ EXCEPT !.byPlatform = Aggregate(messageModel, calls[p].userId)],
                        !.outcome = [NoOutcome EXCEPT !.ok = TRUE]]]
       \/ calls' = [calls EXCEPT ![p] = CatchStats(@, "aggregate")]
    /\ UNCHANGED <<messageModel, redis, massCapable, strategyCall, redisCall, now, createdBy, snapshotOf, writtenAt, invalidatedUpTo, returnedUpTo>>

\* MaxDispatches calls, each a dispatch or a getUserMessageStats, interleaved
\* at their awaits on the seeded store and cache
NextStats ==
    \E p \in 1..MaxDispatches :
        \/ \E u \in Users, dto \in DispatchDtos : SendMessageCall(p, u, dto, NoFile)
        \/ Resolve(p)
        \/ \E r \in {[success |-> <<TRUE>>], [success |-> <<FALSE>>]} : Settle(p, 1, r)
        \/ Resume(p)
        \/ Save(p)
        \/ Keys(p)
        \/ Del(p)
        \/ \E u \in Users : GetUserMessageStatsCall(p, u)
        \/ CountTotal(p)
        \/ CountSent(p)
        \/ CountFailed(p)
        \/ AggregateByPlatform(p)

SpecStats == InitConcurrent /\ [][NextStats]_vars

\* C39: the counts that getUserMessageStats returns add up, total = sent +
\* failed, also when dispatches of the user commit while it is counting.
C39_TotalIsSentPlusFailed ==
    \A p \in DOMAIN calls :
        (calls[p].kind = "stats" /\ calls[p].pc = "done" /\ calls[p].outcome.ok) =>
            calls[p].stats.total = calls[p].stats.sent + calls[p].stats.failed

====
